---- MODULE Spec2Model ----
(***************************************************************************)
(* Model of the jetty inclusive jet clustering library: the PseudoJet      *)
(* value type, the four distance measures, the three cluster-history       *)
(* engines (ClusterNaive, ClusterGeom, ClusterGeomTile), the ClusterHistory*)
(* facade and cluster_if.                                                  *)
(*                                                                         *)
(* Number representation.  N64 values are modelled as integers:            *)
(*   - four-momentum components are floats with a MANT_BITS-bit            *)
(*     significand: every sum is rounded to nearest, ties to even (FRound),*)
(*     so addition is commutative but not associative, as for f64;         *)
(*   - angles (phi, rap, R) are fixed-point in units of 1/ANGLE_ONE,       *)
(*     squared angles (delta_r2, r2) in units of 1/ANGLE_ONE^2;            *)
(*   - 1/pt2 is fixed-point in units of 1/ONE, pt2() in units of 1/ONE_K;  *)
(*   - INF / NEGINF are the infinities, MAXV is N64::max_value() (the      *)
(*     largest finite value) and NAN is the result of an invalid operation.*)
(* N64 is a checked float: an operation that yields NaN panics.  In the    *)
(* model the value NAN is propagated to the enclosing engine operation,    *)
(* which then sets its `failed` field (the panic).  Failed assert!s and    *)
(* unwrap()s on None set the same field.                                   *)
(* Indices are 0-based as in the source; sequences are 1-based, so index i *)
(* is stored at position i + 1.                                            *)
(***************************************************************************)
EXTENDS Integers, Sequences, FiniteSets, TLC

\* ------------------------------------------------------------------ bounds
\* largest number of input pseudojets
MaxN == 3
\* how many times next() is called again after it has returned None
MaxNone == 2
\* largest number of input pseudojets spread over the tile grid
MaxEdgeN == 3
\* largest number of input pseudojets around the phi = 0 / 2 pi seam
MaxSeamN == 2
\* largest number of four-momenta handed to pseudojet_f
MaxRawN == 2
\* largest number of input pseudojets that lie within R of each other
MaxPushN == 4
\* largest number of input pseudojets with equal distances
MaxTieN == 4

\* ------------------------------------------------------------ N64 values
INF == 2000000000
NEGINF == 0 - INF
MAXV == INF - 1
NAN == INF + 1
USIZE_MAX == 1000000
D == 4
MANT_BITS == 3
ANGLE_ONE == 100
ONE == 10000
ONE_K == 16
PI == 314
TWO_PI == 2 * PI

IsNaN(x) == x = NAN
IsInf(x) == x = INF \/ x = NEGINF
Abs(x) == IF x < 0 THEN 0 - x ELSE x
Sgn(x) == IF x < 0 THEN 0 - 1 ELSE IF x > 0 THEN 1 ELSE 0
Min(a, b) == IF b < a THEN b ELSE a
SignedInf(s) == IF s < 0 THEN NEGINF ELSE INF

\* a + b on N64 (exact on the fixed-point grid)
NAdd(a, b) ==
    IF IsNaN(a) \/ IsNaN(b) THEN NAN
    ELSE IF IsInf(a) /\ IsInf(b) THEN (IF a = b THEN a ELSE NAN)
    ELSE IF IsInf(a) THEN a
    ELSE IF IsInf(b) THEN b
    ELSE a + b

NNeg(a) == IF IsNaN(a) THEN NAN ELSE 0 - a

NSub(a, b) == NAdd(a, NNeg(b))

\* a * b on N64; a finite product too large for the representation is infinite
NMul(a, b) ==
    IF IsNaN(a) \/ IsNaN(b) THEN NAN
    ELSE IF IsInf(a) \/ IsInf(b)
         THEN (IF a = 0 \/ b = 0 THEN NAN ELSE SignedInf(Sgn(a) * Sgn(b)))
    ELSE IF a # 0 /\ Abs(b) > MAXV \div Abs(a) THEN SignedInf(Sgn(a) * Sgn(b))
    ELSE a * b

\* a / b on N64, truncated to the fixed-point grid
NDiv(a, b) ==
    IF IsNaN(a) \/ IsNaN(b) THEN NAN
    ELSE IF IsInf(a) THEN (IF IsInf(b) THEN NAN
                           ELSE SignedInf(Sgn(a) * (IF b < 0 THEN 0 - 1 ELSE 1)))
    ELSE IF IsInf(b) THEN 0
    ELSE IF b = 0 THEN (IF a = 0 THEN NAN ELSE SignedInf(Sgn(a)))
    ELSE Sgn(a) * Sgn(b) * (Abs(a) \div Abs(b))

NAbs(a) == IF IsNaN(a) THEN NAN ELSE Abs(a)

\* the spacing of representable magnitudes around a (a >= 0)
RECURSIVE Quantum(_)
Quantum(a) == IF a < 2 ^ MANT_BITS THEN 1 ELSE 2 * Quantum(a \div 2)

\* round-half-to-even of r + rem / q
RoundHalfEven(r, rem, q) ==
    IF 2 * rem < q THEN r
    ELSE IF 2 * rem > q THEN r + 1
    ELSE r + (r % 2)

\* the magnitude a rounded to a multiple of the spacing q
RoundTo(a, q) == RoundHalfEven(a \div q, a % q, q) * q

\* round an exact integer to the MANT_BITS-bit significand, ties to even
FRound(x) == Sgn(x) * RoundTo(Abs(x), Quantum(Abs(x)))

Representable(x) == FRound(x) = x

\* sum / difference of two four-momentum components
FAdd(a, b) == FRound(a + b)
FSub(a, b) == FRound(a - b)

\* ------------------------------------------------------- libm functions
\* atan(a / b) for 0 <= a <= b, b > 0, in units of 1/ANGLE_ONE
AtanOct(a, b) ==
    LET num == a * (7854 * b + 2730 * (b - a))
        den == 100 * b * b
    IN  (2 * num + den) \div (2 * den)

\* atan2(y, x) for x >= 0, y >= 0, not both 0
AtanQ1(y, x) == IF y <= x THEN AtanOct(y, x) ELSE (PI \div 2) - AtanOct(x, y)

\* f64::atan2: result in (-PI, PI]
Atan2(y, x) ==
    IF x = 0 /\ y = 0 THEN 0
    ELSE IF y >= 0 THEN (IF x >= 0 THEN AtanQ1(y, x) ELSE PI - AtanQ1(y, 0 - x))
    ELSE (IF x >= 0 THEN 0 - AtanQ1(0 - y, x) ELSE AtanQ1(0 - y, 0 - x) - PI)

LnTab == <<0, 693, 1099, 1386, 1609, 1792, 1946>>

\* 1000 * ln(n) for a representable integer n >= 1
RECURSIVE Ln1000(_)
Ln1000(n) == IF n < 2 ^ MANT_BITS THEN LnTab[n] ELSE 693 + Ln1000(n \div 2)

\* x / 20 rounded to the nearest integer, halves away from zero
HalfRound(x) == Sgn(x) * ((Abs(x) + 10) \div 20)

\* ln(num / den) / 2 in units of 1/ANGLE_ONE
HalfLnRatio(num, den) ==
    IF num = 0 /\ den = 0 THEN NAN
    ELSE IF den = 0 THEN (IF num > 0 THEN INF ELSE NAN)
    ELSE IF num = 0 THEN NEGINF
    ELSE IF (num < 0) # (den < 0) THEN NAN
    ELSE HalfRound(Ln1000(Abs(num)) - Ln1000(Abs(den)))

\* if self.phi < 0. { self.phi += 2 PI }: atan2 is below 0 (`negative`) exactly
\* if py is, and the sum is rounded to the grid of representable angles, so
\* that an azimuth less than half a grid step below 0 (phi = 0 here) becomes
\* 2 PI itself
PhiUp(negative, phi) == IF negative THEN phi + TWO_PI ELSE phi

\* if self.phi > 2 PI { self.phi -= 2 PI }
PhiDown(phi) == IF phi > TWO_PI THEN phi - TWO_PI ELSE phi

\* the derived scalars of init_pt2_phi_rap, given pt2
InitFromPt2(c, pt2) ==
    [comp |-> c,
     inv_pt2 |-> NDiv(ONE, pt2),
     phi |-> PhiDown(PhiUp(pt2 > 0 /\ c[3] < 0,
                           IF pt2 > 0 THEN Atan2(c[3], c[2]) ELSE 0)),
     rap |-> IF c[1] = 0 /\ c[4] = 0 THEN 0
             ELSE HalfLnRatio(FAdd(c[1], c[4]), FSub(c[1], c[4]))]

\* PseudoJet::init_pt2_phi_rap applied to the components c = <<e, px, py, pz>>
InitPt2PhiRap(c) == InitFromPt2(c, c[2] * c[2] + c[3] * c[3])

\* pseudojet(e, px, py, pz)
pseudojet(e, px, py, pz) == InitPt2PhiRap(<<e, px, py, pz>>)

\* PseudoJet::default(): the zero pseudojet
DefaultPseudoJet ==
    [comp |-> <<0, 0, 0, 0>>, inv_pt2 |-> INF, phi |-> 0, rap |-> 0]

\* a derived scalar is NaN: the N64 operation that produced it has panicked
PJInvalid(p) == IsNaN(p.inv_pt2) \/ IsNaN(p.phi) \/ IsNaN(p.rap)

\* a construction that panicked yields no pseudojet
Panicked == [ok |-> FALSE]
Constructed(p) == [ok |-> TRUE, pseudojet |-> p]

\* PseudoJet::from([N64; D]): init_pt2_phi_rap panics if a derived scalar is NaN
FromN64(c) ==
    IF PJInvalid(InitPt2PhiRap(c)) THEN Panicked ELSE Constructed(InitPt2PhiRap(c))

\* (a variant whose conversion checks the transverse components only)
FromF64TransverseOnly(arr) ==
    IF IsNaN(arr[2]) \/ IsNaN(arr[3]) THEN Panicked ELSE FromN64(arr)

\* PseudoJet::from([f64; D]): n64() on each component, which panics on NaN,
\* then from([N64; D])
FromF64(arr) ==
    IF \E i \in 1..D : IsNaN(arr[i]) THEN Panicked ELSE FromN64(arr)

\* pseudojet_f(e, px, py, pz)
pseudojet_f(e, px, py, pz) == FromF64(<<e, px, py, pz>>)

\* (a variant that leaves the right operand out of the sum)
PJAddLeftOnly(p, q) == p

\* (a variant that adds the components and leaves the cached scalars alone)
PJAddStale(p, q) == [p EXCEPT !.comp = [i \in 1..D |-> FAdd(p.comp[i], q.comp[i])]]

\* impl Add / AddAssign for PseudoJet
PJAdd(p, q) == InitPt2PhiRap([i \in 1..D |-> FAdd(p.comp[i], q.comp[i])])

\* impl Sub / SubAssign for PseudoJet
PJSub(p, q) == InitPt2PhiRap([i \in 1..D |-> FSub(p.comp[i], q.comp[i])])

\* PseudoJet::pt2: 1 / inv_pt2, in units of 1/ONE_K
Pt2(p) == NDiv(ONE * ONE_K, p.inv_pt2)

\* (a variant that does not take the short way around)
DeltaPhiAbsNoWrap(p, q) == Abs(p.phi - q.phi)

\* PseudoJet::delta_phi_abs
DeltaPhiAbs(p, q) ==
    LET a == Abs(p.phi - q.phi)
    IN  IF a > PI THEN TWO_PI - a ELSE a

\* PseudoJet::delta_phi
DeltaPhi(p, q) ==
    LET d == p.phi - q.phi
    IN  IF d > PI THEN d - TWO_PI
        ELSE IF d <= 0 - PI THEN d + TWO_PI
        ELSE d

DeltaPhi2(p, q) == DeltaPhiAbs(p, q) * DeltaPhiAbs(p, q)

DeltaRap(p, q) == NSub(p.rap, q.rap)

DeltaRap2(p, q) == NMul(DeltaRap(p, q), DeltaRap(p, q))

\* PseudoJet::delta_r2
DeltaR2(p, q) == NAdd(DeltaPhi2(p, q), DeltaRap2(p, q))

\* --------------------------------------------------------------- Distance
\* a distance measure: kind, r2 = r * r, and the exponent p of GenKt
anti_kt(r) == [kind |-> "AntiKt", r2 |-> r * r, p |-> 0]
kt(r) == [kind |-> "Kt", r2 |-> r * r, p |-> 0]
cambridge_aachen(r) == [kind |-> "CambridgeAachen", r2 |-> r * r, p |-> 0]
gen_kt(r, p) == [kind |-> "GenKt", r2 |-> r * r, p |-> p]

\* pt2.powf(p) for the exponents p in {-1, 0, 1}; the result is in units of
\* 1/ONE for p <= 0 and of 1/ONE_K for p = 1
Powf(x, p) ==
    IF p = 0 THEN ONE
    ELSE IF p = 1 THEN x
    ELSE NDiv(ONE * ONE_K, x)

\* the pt2-dependent factor of the pair distance
Coef(d, p1, p2) ==
    CASE d.kind = "AntiKt" -> Min(p1.inv_pt2, p2.inv_pt2)
      [] d.kind = "Kt" -> Min(Pt2(p1), Pt2(p2))
      [] d.kind = "CambridgeAachen" -> ONE
      [] d.kind = "GenKt" -> Min(Powf(Pt2(p1), d.p), Powf(Pt2(p2), d.p))

\* Distance::distance
Distance(d, p1, p2) == NDiv(NMul(Coef(d, p1, p2), DeltaR2(p1, p2)), d.r2)

\* Distance::beam_distance
BeamDistance(d, p1) ==
    CASE d.kind = "AntiKt" -> p1.inv_pt2
      [] d.kind = "Kt" -> Pt2(p1)
      [] d.kind = "CambridgeAachen" -> ONE
      [] d.kind = "GenKt" -> Powf(Pt2(p1), d.p)

\* ------------------------------------------------------------ ClusterStep
Jet(p) == [kind |-> "Jet", ops |-> <<p>>]
Combine(p1, p2) == [kind |-> "Combine", ops |-> <<p1, p2>>]

\* (a variant that compares the operands of Combine slot by slot only)
StepEqOrdered(a, b) == a.kind = b.kind /\ a.ops = b.ops

\* impl PartialEq for ClusterStep
StepEq(a, b) ==
    IF a.kind = "Combine" /\ b.kind = "Combine"
    THEN a.ops = b.ops \/ (a.ops[1] = b.ops[2] /\ a.ops[2] = b.ops[1])
    ELSE IF a.kind = "Jet" /\ b.kind = "Jet" THEN a.ops[1] = b.ops[1]
    ELSE FALSE

\* #[derive(PartialOrd)] on [N64; D]: lexicographic, from index k on
RECURSIVE CompLess(_, _, _)
CompLess(a, b, k) ==
    IF k > D THEN FALSE
    ELSE IF a[k] # b[k] THEN a[k] < b[k]
    ELSE CompLess(a, b, k + 1)

\* #[derive(PartialOrd)] on PseudoJet: p < q, the fields in declaration order
PJLess(p, q) ==
    IF p.comp # q.comp THEN CompLess(p.comp, q.comp, 1)
    ELSE IF p.inv_pt2 # q.inv_pt2 THEN p.inv_pt2 < q.inv_pt2
    ELSE IF p.phi # q.phi THEN p.phi < q.phi
    ELSE p.rap < q.rap

\* #[derive(Ord)] on ClusterStep: the variants in declaration order (Combine
\* before Jet), then the payloads, the operands of Combine slot by slot
StepCmp(a, b) ==
    IF a.kind # b.kind THEN (IF a.kind = "Combine" THEN "Less" ELSE "Greater")
    ELSE IF a.ops = b.ops THEN "Equal"
    ELSE IF a.ops[1] # b.ops[1]
    THEN (IF PJLess(a.ops[1], b.ops[1]) THEN "Less" ELSE "Greater")
    ELSE (IF PJLess(a.ops[2], b.ops[2]) THEN "Less" ELSE "Greater")

\* impl Hash for ClusterStep: what is fed to the hasher
HashFeed(step) ==
    IF step.kind = "Combine"
    THEN (IF PJLess(step.ops[1], step.ops[2]) THEN <<step.ops[1], step.ops[2]>>
          ELSE <<step.ops[2], step.ops[1]>>)
    ELSE <<step.ops[1]>>

\* Vec::swap_remove(i) on a sequence (0-based i)
SwapRemove(s, i) ==
    LET n == Len(s)
    IN  [k \in 1..(n - 1) |-> IF k = i + 1 THEN s[n] ELSE s[k]]

\* Iterator::collect into a Vec: the elements, computed once
Collect(f) == f \o <<>>

\* (a variant in which, at equal d, the greater indices come first)
TripleLessHighFirst(a, b) ==
    \/ a[1] < b[1]
    \/ a[1] = b[1] /\ a[2] > b[2]
    \/ a[1] = b[1] /\ a[2] = b[2] /\ a[3] > b[3]

\* lexicographic order of the (N64, usize, usize) triples
TripleLess(a, b) ==
    \/ a[1] < b[1]
    \/ a[1] = b[1] /\ a[2] < b[2]
    \/ a[1] = b[1] /\ a[2] = b[2] /\ a[3] < b[3]

\* ------------------------------------------------------------ ClusterNaive
\* the row of calc_distances for index i: the pairs (i, j), j > i, then the beam
DistanceRow(pseudojets, d, i) ==
    LET n == Len(pseudojets)
    IN  [k \in 1..(n - 1 - i) |->
            <<Distance(d, pseudojets[i + 1], pseudojets[i + k + 1]), i, i + k>>]
        \o <<<<BeamDistance(d, pseudojets[i + 1]), i, i>>>>

\* calc_distances, rows i..n-1
RECURSIVE CalcDistancesFrom(_, _, _)
CalcDistancesFrom(pseudojets, d, i) ==
    IF i >= Len(pseudojets) THEN <<>>
    ELSE DistanceRow(pseudojets, d, i) \o CalcDistancesFrom(pseudojets, d, i + 1)

\* calc_distances
CalcDistances(pseudojets, d) == CalcDistancesFrom(pseudojets, d, 0)

\* some stored distance is NaN: computing it has panicked
AnyNaN(distances) == \E k \in 1..Len(distances) : IsNaN(distances[k][1])

\* a ClusterNaive value; it has panicked if a pseudojet's derived scalar
\* (`invalid`) or a stored distance is NaN
NaiveState(pseudojets, distances, invalid) ==
    [pseudojets |-> pseudojets,
     distances |-> distances,
     failed |-> invalid \/ AnyNaN(distances)]

\* ClusterNaive::new
NaiveNew(partons, d) == NaiveState(partons, CalcDistances(partons, d), FALSE)

\* (a variant that leaves the triples as they are)
RenameIndexNot(distances, from, to) == distances

\* the loop that renames index `from` to `to` in every triple
RenameIndex(distances, from, to) ==
    [k \in 1..Len(distances) |->
        <<distances[k][1],
          IF distances[k][2] = from THEN to ELSE distances[k][2],
          IF distances[k][3] = from THEN to ELSE distances[k][3]>>]

\* distances.retain(|(_, ii, jj)| *ii != i && *jj != i)
RetainWithout(distances, i) ==
    LET Keep(t) == t[2] # i /\ t[3] # i
    IN  SelectSeq(distances, Keep)

\* ClusterNaive::extract_as_jet: the new state and the returned jet
NaiveExtractAsJet(s, i) ==
    [state |-> NaiveState(SwapRemove(s.pseudojets, i),
                          RenameIndex(RetainWithout(s.distances, i),
                                      Len(s.pseudojets) - 1, i),
                          FALSE),
     out |-> Jet(s.pseudojets[i + 1])]

\* minmax
minmax(i, j) == IF i > j THEN <<j, i>> ELSE <<i, j>>

\* (a variant that recomputes nothing)
UpdateDistancesNot(distances, pseudojets, d, i) == distances

\* the "update distances" loop of combine: recompute every triple touching i
UpdateDistances(distances, pseudojets, d, i) ==
    [k \in 1..Len(distances) |->
        LET t == distances[k]
        IN  IF t[2] = i \/ t[3] = i
            THEN <<IF t[2] # t[3]
                   THEN Distance(d, pseudojets[t[2] + 1], pseudojets[t[3] + 1])
                   ELSE BeamDistance(d, pseudojets[i + 1]),
                   t[2], t[3]>>
            ELSE t]

\* the end of combine, `self.pseudojets[i] += p2` done: the "update distances" loop
CombineUpdate(pseudojets, distances, d, i) ==
    NaiveState(pseudojets, UpdateDistances(distances, pseudojets, d, i),
               PJInvalid(pseudojets[i + 1]))

\* (a variant that leaves slot i as it was)
CombineOrderedNoSum(s, d, i, j) ==
    CombineUpdate(SwapRemove(s.pseudojets, j),
                  RenameIndex(RetainWithout(s.distances, j), Len(s.pseudojets) - 1, j),
                  d, i)

\* combine after minmax: retain, swap_remove(j), the renaming loop, the sum
CombineOrdered(s, d, i, j) ==
    CombineUpdate([SwapRemove(s.pseudojets, j) EXCEPT
                      ![i + 1] = PJAdd(@, s.pseudojets[j + 1])],
                  RenameIndex(RetainWithout(s.distances, j), Len(s.pseudojets) - 1, j),
                  d, i)

\* ClusterNaive::combine: the new state and the returned pair
NaiveCombine(s, d, i0, j0) ==
    [state |-> CombineOrdered(s, d, minmax(i0, j0)[1], minmax(i0, j0)[2]),
     out |-> Combine(s.pseudojets[i0 + 1], s.pseudojets[j0 + 1])]

\* self.distances.iter().min(): the least triple in the lexicographic order
\* (no two triples are equal: they differ in their indices)
MinTriple(distances) ==
    LET n == Len(distances)
        least == CHOOSE v \in {distances[k][1] : k \in 1..n} :
                    \A k \in 1..n : v <= distances[k][1]
        firsts == {distances[k] : k \in {m \in 1..n : distances[m][1] = least}}
    IN  CHOOSE t \in firsts : \A u \in firsts : t = u \/ TripleLess(t, u)

\* Iterator::next results: Some(step), None, or a panic while computing it
NoStep == [kind |-> "None", ops |-> <<>>]
Some(state, step) == [state |-> state, result |-> "Some", out |-> step]
Panic(state) == [state |-> [state EXCEPT !.failed = TRUE], result |-> "Panic", out |-> NoStep]
\* (a variant that unwraps the missing minimum instead of returning None)
NoneUnwrapped(state) == Panic(state)
None(state) == [state |-> state, result |-> "None", out |-> NoStep]

\* Some(..) of what extract_as_jet or combine has returned, unless it panicked
Returned(r) == IF r.state.failed THEN Panic(r.state) ELSE Some(r.state, r.out)

\* the body of `if let Some(&(_, i, j)) = self.distances.iter().min()`
NaiveNextAt(s, d, i, j) ==
    Returned(IF i = j THEN NaiveExtractAsJet(s, i) ELSE NaiveCombine(s, d, i, j))

\* ClusterNaive::next: the new state and Some(step) / None
NaiveNext(s, d) ==
    IF s.failed THEN Panic(s)
    ELSE IF s.distances # <<>>
    THEN NaiveNextAt(s, d, MinTriple(s.distances)[2], MinTriple(s.distances)[3])
    ELSE None(s)

\* ------------------------------------------- ClusterGeom / ClusterGeomTile
\* The state of both geometric engines is
\*   [pseudojets, tiles, tiled, failed]
\* where `tiled` tells ClusterGeomTile from ClusterGeom (which has no tiles:
\* its grid stays empty and is never read).
MAX_RAP == 500
N_RAP_BINS == 10
N_PHI_BINS == 6

\* struct PseudoJetWithDist
PseudoJetWithDist(p, beam, nd, nn, nnf) ==
    [pseudojet |-> p,
     beam_dist |-> beam,
     nearest_dist |-> nd,
     nearest_neighbour_idx |-> nn,
     nearest_neighbour_for |-> nnf]

\* PseudoJetWithDist::min_dist
MinDist(r) == Min(r.nearest_dist, r.beam_dist)

\* PseudoJetWithDist::delta_r2
RecDeltaR2(r1, r2) == DeltaR2(r1.pseudojet, r2.pseudojet)

\* a panic: a failed assertion, an unwrap() of None, an index out of bounds
\* or an N64 operation yielding NaN
Fail(s) == [s EXCEPT !.failed = TRUE]

\* self.pseudojets[i]
At(s, i) == s.pseudojets[i + 1]

\* iter().position(|&k| k == v): the 1-based position of the first v, 0 for None
Position(list, v) ==
    IF \E k \in 1..Len(list) : list[k] = v
    THEN CHOOSE k \in 1..Len(list) :
            list[k] = v /\ \A m \in 1..(k - 1) : list[m] # v
    ELSE 0

\* IndexSet::insert
IndexSetInsert(t, x) == IF Position(t, x) # 0 THEN t ELSE Append(t, x)

\* IndexSet::swap_remove
IndexSetSwapRemove(t, x) ==
    IF Position(t, x) = 0 THEN t ELSE SwapRemove(t, Position(t, x) - 1)

EmptyTiles == [r \in 0..(N_RAP_BINS - 1) |-> [f \in 0..(N_PHI_BINS - 1) |-> <<>>]]

\* the range assertions of tile_coord hold for p
TileCoordOk(p) == p.phi >= 0 /\ p.phi * N_PHI_BINS < N_PHI_BINS * TWO_PI

\* the rapidity bin of x = rap + MAX_RAP: the cast `as usize` saturates,
\* then min(.., N_RAP_BINS - 1)
RapCoord(x) ==
    IF x = INF THEN N_RAP_BINS - 1
    ELSE IF x = NEGINF THEN 0
    ELSE IF x \div ANGLE_ONE < 0 THEN 0
    ELSE IF x \div ANGLE_ONE > N_RAP_BINS - 1 THEN N_RAP_BINS - 1
    ELSE x \div ANGLE_ONE

\* ClusterGeomTile::tile_coord: <<rap_coord, phi_coord>>
TileCoord(p) == <<RapCoord(NAdd(p.rap, MAX_RAP)), (p.phi * N_PHI_BINS) \div TWO_PI>>

\* the rows and columns of the 3x3 window, in iteration order
RapIdxRange(rap_idx) ==
    IF rap_idx + 1 = 1 THEN <<0, 1>>
    ELSE IF rap_idx + 1 = N_RAP_BINS THEN <<N_RAP_BINS - 2, N_RAP_BINS - 1>>
    ELSE <<rap_idx - 1, rap_idx, rap_idx + 1>>

PhiIdxRange(phi_idx) ==
    IF phi_idx + 1 = 1 THEN <<N_PHI_BINS - 1, 0, 1>>
    ELSE IF phi_idx + 1 = N_PHI_BINS THEN <<N_PHI_BINS - 2, N_PHI_BINS - 1, 0>>
    ELSE <<phi_idx - 1, phi_idx, phi_idx + 1>>

RECURSIVE Flatten(_)
Flatten(ss) == IF ss = <<>> THEN <<>> ELSE Head(ss) \o Flatten(Tail(ss))

\* (a variant that scans the row of the tile only)
TileNeighboursOneRow(tiles, rap_idx, phi_idx) ==
    Flatten([k \in 1..3 |-> tiles[rap_idx][PhiIdxRange(phi_idx)[k]]])

\* ClusterGeomTile::tile_neighbours: the occupants of the window, in order
TileNeighbours(tiles, rap_idx, phi_idx) ==
    LET rr == RapIdxRange(rap_idx)
        ff == PhiIdxRange(phi_idx)
    IN  Flatten([k \in 1..(Len(rr) * 3) |->
                    tiles[rr[((k - 1) \div 3) + 1]][ff[((k - 1) % 3) + 1]]])

\* the candidate indices scanned for the nearest neighbour of `pos`, in order
Candidates(s, pos) ==
    IF s.tiled
    THEN LET c == TileCoord(At(s, pos).pseudojet)
             NotPos(j) == j # pos
         IN  SelectSeq(TileNeighbours(s.tiles, c[1], c[2]), NotPos)
    ELSE [k \in 1..(Len(s.pseudojets) - 1) |-> IF k - 1 < pos THEN k - 1 ELSE k]

\* the first candidate (in the order of `cands`) with the smallest delta_r2 to
\* `pos`: Iterator::min_by_key; USIZE_MAX for None
RECURSIVE FirstNearest(_, _, _, _, _)
FirstNearest(s, pos, cands, best, best_gdist) ==
    IF cands = <<>> THEN best
    ELSE LET g == RecDeltaR2(At(s, pos), At(s, Head(cands)))
         IN  IF best = USIZE_MAX \/ g < best_gdist
             THEN FirstNearest(s, pos, Tail(cands), Head(cands), g)
             ELSE FirstNearest(s, pos, Tail(cands), best, best_gdist)

\* some candidate's delta_r2 to `pos` is NaN, or a candidate is out of bounds
ScanPanics(s, pos, cands) ==
    \E k \in 1..Len(cands) :
        \/ cands[k] >= Len(s.pseudojets)
        \/ IsNaN(RecDeltaR2(At(s, pos), At(s, cands[k])))

\* ClusterGeom::remove_nearest_link / ClusterGeomTile::remove_nearest_link
RemoveNearestLink(s, pos) ==
    IF s.failed THEN s
    ELSE IF ~(pos < Len(s.pseudojets)) THEN Fail(s)
    ELSE LET nearest_idx == At(s, pos).nearest_neighbour_idx
         IN  IF nearest_idx < Len(s.pseudojets)
             THEN LET for == At(s, nearest_idx).nearest_neighbour_for
                      to_remove_idx == Position(for, pos)
                  IN  IF to_remove_idx = 0 THEN Fail(s)
                      ELSE [s EXCEPT !.pseudojets[nearest_idx + 1].nearest_neighbour_for =
                                SwapRemove(for, to_remove_idx - 1)]
             ELSE s

\* the two loops of swap: for idx in list { debug_assert_eq!(..idx == from); ..idx = to }
RECURSIVE Retarget(_, _, _, _)
Retarget(s, list, from, to) ==
    IF s.failed \/ list = <<>> THEN s
    ELSE IF ~(Head(list) < Len(s.pseudojets)) THEN Fail(s)
    ELSE IF At(s, Head(list)).nearest_neighbour_idx # from THEN Fail(s)
    ELSE Retarget([s EXCEPT !.pseudojets[Head(list) + 1].nearest_neighbour_idx = to],
                  Tail(list), from, to)

\* (a variant that leaves the reverse list of `owner` as it is)
RenameInForNot(s, owner, old, new) == s

\* the two blocks of swap that rename `old` to `new` in the reverse list of `owner`
RenameInFor(s, owner, old, new) ==
    IF s.failed THEN s
    ELSE IF owner < Len(s.pseudojets)
    THEN LET to_update_idx == Position(At(s, owner).nearest_neighbour_for, old)
         IN  IF to_update_idx = 0 THEN Fail(s)
             ELSE [s EXCEPT !.pseudojets[owner + 1].nearest_neighbour_for[to_update_idx] = new]
    ELSE s

\* (a variant that leaves the tile as it is)
TilesSwapRemoveNot(tiles, c, x) == tiles

\* self.tiles[c[0]][c[1]].swap_remove(&x)
TilesSwapRemove(tiles, c, x) == [tiles EXCEPT ![c[1]][c[2]] = IndexSetSwapRemove(@, x)]

\* self.tiles[c[0]][c[1]].insert(x)
TilesInsert(tiles, c, x) == [tiles EXCEPT ![c[1]][c[2]] = IndexSetInsert(@, x)]

\* the tile updates of ClusterGeomTile::swap
SwapTiles(tiles, ci, cj, i, j) ==
    TilesInsert(TilesSwapRemove(TilesInsert(TilesSwapRemove(tiles, ci, i), ci, j),
                                cj, j),
                cj, i)

\* the end of swap: the tile updates (ClusterGeomTile) and self.pseudojets.swap(i, j)
SwapPlaces(s, ci, cj, i, j) ==
    IF s.failed THEN s
    ELSE [s EXCEPT
            !.tiles = IF s.tiled THEN SwapTiles(@, ci, cj, i, j) ELSE @,
            !.pseudojets = [@ EXCEPT ![i + 1] = s.pseudojets[j + 1],
                                     ![j + 1] = s.pseudojets[i + 1]]]

\* ClusterGeom::swap / ClusterGeomTile::swap
Swap(s, i, j) ==
    IF s.failed THEN s
    ELSE IF ~(i < Len(s.pseudojets) /\ j < Len(s.pseudojets)) THEN Fail(s)
    ELSE IF i = j THEN s
    ELSE IF s.tiled /\ ~(TileCoordOk(At(s, i).pseudojet) /\ TileCoordOk(At(s, j).pseudojet))
    THEN Fail(s)
    ELSE SwapPlaces(
            RenameInFor(
                RenameInFor(
                    Retarget(Retarget(s, At(s, i).nearest_neighbour_for, i, j),
                             At(s, j).nearest_neighbour_for, j, i),
                    At(s, i).nearest_neighbour_idx, i, j),
                At(s, j).nearest_neighbour_idx, j, i),
            TileCoord(At(s, i).pseudojet), TileCoord(At(s, j).pseudojet), i, j)

\* the distance stored with the nearest neighbour nearest_idx of `pos`
NearestDist(s, d, pos, nearest_idx) ==
    IF nearest_idx < USIZE_MAX
    THEN Distance(d, At(s, pos).pseudojet, At(s, nearest_idx).pseudojet)
    ELSE MAXV

\* the assignments at the end of update_nearest_at_idx
SetNearest(s, pos, nearest_idx, nd) ==
    IF IsNaN(nd) THEN Fail(s)
    ELSE IF nearest_idx < USIZE_MAX
    THEN [s EXCEPT
            !.pseudojets[nearest_idx + 1].nearest_neighbour_for = Append(@, pos),
            !.pseudojets[pos + 1].nearest_neighbour_idx = nearest_idx,
            !.pseudojets[pos + 1].nearest_dist = nd]
    ELSE [s EXCEPT
            !.pseudojets[pos + 1].nearest_neighbour_idx = nearest_idx,
            !.pseudojets[pos + 1].nearest_dist = nd]

\* min_by_key over the candidates, then the assignments
FindNearest(s, d, pos, nearest_idx) ==
    SetNearest(s, pos, nearest_idx, NearestDist(s, d, pos, nearest_idx))

\* update_nearest_at_idx after remove_nearest_link(pos)
Relink(s, d, pos, cands) ==
    IF ScanPanics(s, pos, cands) THEN Fail(s)
    ELSE FindNearest(s, d, pos, FirstNearest(s, pos, cands, USIZE_MAX, 0))

\* update_nearest_at_idx from tile_coord on
Unlinked(s, d, pos) ==
    IF s.failed THEN s
    ELSE IF s.tiled /\ ~TileCoordOk(At(s, pos).pseudojet) THEN Fail(s)
    ELSE Relink(s, d, pos, Candidates(s, pos))

\* (a variant that recomputes nothing)
UpdateNearestAtIdxNot(s, d, pos) == s

\* ClusterGeom::update_nearest_at_idx / ClusterGeomTile::update_nearest_at_idx
UpdateNearestAtIdx(s, d, pos) ==
    IF s.failed THEN s
    ELSE IF ~(pos < Len(s.pseudojets)) THEN Fail(s)
    ELSE Unlinked(RemoveNearestLink(s, pos), d, pos)

\* ClusterGeom::update_nearest / ClusterGeomTile::update_nearest
RECURSIVE UpdateNearest(_, _, _)
UpdateNearest(s, d, pos) ==
    IF s.failed \/ pos = <<>> THEN s
    ELSE UpdateNearest(UpdateNearestAtIdx(s, d, Head(pos)), d, Tail(pos))

\* the last record: self.pseudojets[self.pseudojets.len() - 1]
Last(s) == At(s, Len(s.pseudojets) - 1)

\* the tile update of ClusterGeomTile::remove and self.pseudojets.pop()
Pop(s) ==
    [s EXCEPT
        !.tiles = IF s.tiled
                  THEN TilesSwapRemove(@, TileCoord(Last(s).pseudojet),
                                       Len(s.pseudojets) - 1)
                  ELSE @,
        !.pseudojets = SubSeq(@, 1, Len(@) - 1)]

\* remove after swap and remove_nearest_link: the new state and the popped record
RemoveLast(s, d) ==
    IF s.failed THEN [state |-> s, rec |-> <<>>]
    ELSE IF s.tiled /\ ~TileCoordOk(Last(s).pseudojet)
    THEN [state |-> Fail(s), rec |-> <<>>]
    ELSE [state |-> UpdateNearest(Pop(s), d, Last(s).nearest_neighbour_for),
          rec |-> Last(s)]

\* ClusterGeom::remove / ClusterGeomTile::remove: the new state and the removed record
Remove(s, d, idx) ==
    IF s.failed \/ ~(idx < Len(s.pseudojets)) THEN [state |-> Fail(s), rec |-> <<>>]
    ELSE RemoveLast(RemoveNearestLink(Swap(s, idx, Len(s.pseudojets) - 1),
                                      Len(s.pseudojets) - 1),
                    d)

\* the second `if` of the scan loop of push: n now points at the new pseudojet
Redirect(s, n) ==
    [RemoveNearestLink(s, n) EXCEPT
        !.pseudojets[n + 1].nearest_neighbour_idx = Len(s.pseudojets)]

\* one iteration of the scan loop of push, for neighbour n at distance dn
PushVisit(acc, n, dn) ==
    IF IsNaN(dn) THEN [acc EXCEPT !.s = Fail(@)]
    ELSE [s |-> IF dn < At(acc.s, n).nearest_dist THEN Redirect(acc.s, n) ELSE acc.s,
          nearest_dist |-> IF dn < acc.nearest_dist THEN dn ELSE acc.nearest_dist,
          nearest_idx |-> IF dn < acc.nearest_dist THEN n ELSE acc.nearest_idx,
          for |-> IF dn < At(acc.s, n).nearest_dist THEN Append(acc.for, n)
                  ELSE acc.for]

\* the scan loop of push: acc = [s, nearest_dist, nearest_idx, for]
RECURSIVE PushScan(_, _, _, _)
PushScan(acc, d, merged, neighbours) ==
    IF acc.s.failed \/ neighbours = <<>> THEN acc
    ELSE IF ~(Head(neighbours) < Len(acc.s.pseudojets)) THEN [acc EXCEPT !.s = Fail(@)]
    ELSE PushScan(PushVisit(acc, Head(neighbours),
                            Distance(d, merged, At(acc.s, Head(neighbours)).pseudojet)),
                  d, merged, Tail(neighbours))

\* (a variant that does not enter the new pseudojet in the reverse list)
LinkNearestNot(s, nearest_idx) == s

\* if nearest_idx < usize::MAX { self.pseudojets[nearest_idx].nearest_neighbour_for.push(len) }
LinkNearest(s, nearest_idx) ==
    IF nearest_idx < USIZE_MAX
    THEN [s EXCEPT !.pseudojets[nearest_idx + 1].nearest_neighbour_for =
                      Append(@, Len(s.pseudojets))]
    ELSE s

\* the record of the pushed pseudojet
Pushed(s, d, merged, nearest_idx, for) ==
    PseudoJetWithDist(merged, BeamDistance(d, merged),
                      IF nearest_idx < USIZE_MAX
                      THEN Distance(d, merged, At(s, nearest_idx).pseudojet)
                      ELSE MAXV,
                      nearest_idx, for)

\* push after the scan loop
PushEnd(acc, d, merged) ==
    IF acc.s.failed THEN acc.s
    ELSE [LinkNearest(acc.s, acc.nearest_idx) EXCEPT
            !.tiles = IF acc.s.tiled
                      THEN TilesInsert(@, TileCoord(merged), Len(acc.s.pseudojets))
                      ELSE @,
            !.pseudojets = Append(@, Pushed(acc.s, d, merged, acc.nearest_idx, acc.for))]

\* the indices the scan loop of push visits, in order
PushNeighbours(s, merged) ==
    IF s.tiled THEN TileNeighbours(s.tiles, TileCoord(merged)[1], TileCoord(merged)[2])
    ELSE [k \in 1..Len(s.pseudojets) |-> k - 1]

\* ClusterGeom::push / ClusterGeomTile::push
Push(s, d, merged) ==
    IF s.failed THEN s
    ELSE IF PJInvalid(merged) \/ IsNaN(BeamDistance(d, merged)) THEN Fail(s)
    ELSE IF s.tiled /\ ~TileCoordOk(merged) THEN Fail(s)
    ELSE PushEnd(PushScan([s |-> s, nearest_dist |-> MAXV,
                           nearest_idx |-> USIZE_MAX, for |-> <<>>],
                          d, merged, PushNeighbours(s, merged)),
                 d, merged)

\* the nearest-neighbour scan of ClusterGeom::new for index i: the first j with
\* the smallest delta_r2 below N64::max_value(), USIZE_MAX if there is none
RECURSIVE NewScan(_, _, _, _, _)
NewScan(partons, i, j, nearest_idx, nearest_gdist) ==
    IF j >= Len(partons) THEN nearest_idx
    ELSE IF j = i THEN NewScan(partons, i, j + 1, nearest_idx, nearest_gdist)
    ELSE LET gdist == DeltaR2(partons[i + 1], partons[j + 1])
         IN  IF gdist < nearest_gdist
             THEN NewScan(partons, i, j + 1, j, gdist)
             ELSE NewScan(partons, i, j + 1, nearest_idx, nearest_gdist)

\* the indices i, ascending, whose nearest neighbour is k: the pushes of `new`
NearestFor(nearest, k) ==
    LET IsFor(i) == nearest[i + 1] = k
    IN  SelectSeq([i \in 1..Len(nearest) |-> i - 1], IsFor)

\* some delta_r2, beam distance or nearest distance computed by `new` is NaN
NewPanics(partons, d, nearest) ==
    \/ \E i \in 1..Len(partons) : IsNaN(BeamDistance(d, partons[i]))
    \/ \E i \in 1..Len(partons) : nearest[i] < USIZE_MAX
                                  /\ IsNaN(Distance(d, partons[i], partons[nearest[i] + 1]))

\* the records built by `new` from the nearest-neighbour indices
NewRecords(partons, d, nearest) ==
    [i \in 1..Len(partons) |->
        PseudoJetWithDist(partons[i],
                          BeamDistance(d, partons[i]),
                          IF nearest[i] < USIZE_MAX
                          THEN Distance(d, partons[i], partons[nearest[i] + 1])
                          ELSE MAXV,
                          nearest[i],
                          NearestFor(nearest, i - 1))]

\* a delta_r2 computed by the scan of ClusterGeom::new is NaN
ScanNaN(partons) ==
    \E i, j \in 1..Len(partons) : i # j /\ IsNaN(DeltaR2(partons[i], partons[j]))

\* the value built by `new` from the nearest-neighbour indices; it has
\* panicked if `invalid` or if a distance it stores is NaN
GeomState(partons, d, nearest, tiles, tiled, invalid) ==
    [pseudojets |-> NewRecords(partons, d, nearest),
     tiles |-> tiles,
     tiled |-> tiled,
     failed |-> invalid \/ NewPanics(partons, d, nearest)]

\* ClusterGeom::new
GeomNew(partons, d) ==
    GeomState(partons, d,
              Collect([i \in 1..Len(partons) |->
                          NewScan(partons, i - 1, 0, USIZE_MAX, MAXV)]),
              EmptyTiles, FALSE, ScanNaN(partons))

\* ClusterGeomTile::init_tiles on tiles t, from index n on
RECURSIVE InitTiles(_, _, _)
InitTiles(partons, t, n) ==
    IF n >= Len(partons) THEN t
    ELSE LET c == TileCoord(partons[n + 1])
         IN  InitTiles(partons, [t EXCEPT ![c[1]][c[2]] = IndexSetInsert(@, n)], n + 1)

\* min_by_key over the candidates `cands` of i: the smallest pair (gdist, j)
NearestAmong(partons, i, cands) ==
    LET G(j) == DeltaR2(partons[i + 1], partons[j + 1])
    IN  IF cands = <<>> THEN USIZE_MAX
        ELSE CHOOSE j \in {cands[k] : k \in 1..Len(cands)} :
                \A k \in 1..Len(cands) :
                    G(j) < G(cands[k]) \/ (G(j) = G(cands[k]) /\ j <= cands[k])

\* the candidate of init_nearest for i that is smallest as a pair (gdist, j)
InitNearest(partons, tiles, i) ==
    LET NotI(j) == j # i
    IN  NearestAmong(partons, i,
                     SelectSeq(TileNeighbours(tiles, TileCoord(partons[i + 1])[1],
                                              TileCoord(partons[i + 1])[2]),
                               NotI))

\* the range assertions of tile_coord hold for every input
CoordsOk(partons) == \A i \in 1..Len(partons) : TileCoordOk(partons[i])

\* a delta_r2 computed by init_nearest (between window neighbours) is NaN
TileScanNaN(partons) ==
    \E i, j \in 1..Len(partons) :
        /\ i # j
        /\ IsNaN(DeltaR2(partons[i], partons[j]))
        /\ TileCoord(partons[j])[1] \in
              {RapIdxRange(TileCoord(partons[i])[1])[k] :
                  k \in 1..Len(RapIdxRange(TileCoord(partons[i])[1]))}
        /\ TileCoord(partons[j])[2] \in
              {PhiIdxRange(TileCoord(partons[i])[2])[k] : k \in 1..3}

\* ClusterGeomTile::new after init_tiles
TileNewOn(partons, d, tiles) ==
    GeomState(partons, d,
              Collect([i \in 1..Len(partons) |-> InitNearest(partons, tiles, i - 1)]),
              tiles, TRUE, TileScanNaN(partons))

\* ClusterGeomTile::new
TileNew(partons, d) ==
    IF CoordsOk(partons) THEN TileNewOn(partons, d, InitTiles(partons, EmptyTiles, 0))
    ELSE GeomState(partons, d, [i \in 1..Len(partons) |-> USIZE_MAX],
                   EmptyTiles, TRUE, TRUE)

\* (a variant that finds no minimum once a single pseudojet is left)
MinIdxStopsEarly(s) == IF Len(s.pseudojets) <= 1 THEN USIZE_MAX ELSE 0

\* ClusterGeom::min_idx / ClusterGeomTile::min_idx: min_by returns the first
\* index with the smallest min_dist; USIZE_MAX for None
MinIdx(s) ==
    IF s.pseudojets = <<>> THEN USIZE_MAX
    ELSE LET n == Len(s.pseudojets)
             least == CHOOSE v \in {MinDist(s.pseudojets[k]) : k \in 1..n} :
                         \A k \in 1..n : v <= MinDist(s.pseudojets[k])
         IN  (CHOOSE k \in 1..n :
                 /\ MinDist(s.pseudojets[k]) = least
                 /\ \A m \in 1..(k - 1) : MinDist(s.pseudojets[m]) # least) - 1

\* the end of next: Some([pi, pj].into()) after self.push(pi + pj)
NextPushed(s, pi, pj) == IF s.failed THEN Panic(s) ELSE Some(s, Combine(pi, pj))

\* (a variant that pushes pi back instead of the sum)
NextCombinePushFirst(pi, r, d) ==
    IF r.state.failed THEN Panic(r.state)
    ELSE NextPushed(Push(r.state, d, pi.pseudojet), pi.pseudojet, r.rec.pseudojet)

\* the else branch of next after `let pj = self.remove(j)`
NextCombine(pi, r, d) ==
    IF r.state.failed THEN Panic(r.state)
    ELSE NextPushed(Push(r.state, d, PJAdd(pi.pseudojet, r.rec.pseudojet)),
                    pi.pseudojet, r.rec.pseudojet)

\* (a variant that emits a Jet also when the two distances are equal)
NextRemovedJetOnTie(r, d) ==
    IF r.state.failed THEN Panic(r.state)
    ELSE IF r.rec.beam_dist <= r.rec.nearest_dist
    THEN Some(r.state, Jet(r.rec.pseudojet))
    ELSE NextCombine(r.rec, Remove(r.state, d, r.rec.nearest_neighbour_idx), d)

\* next after `let pi = self.remove(i)`
NextRemoved(r, d) ==
    IF r.state.failed THEN Panic(r.state)
    ELSE IF r.rec.beam_dist < r.rec.nearest_dist
    THEN Some(r.state, Jet(r.rec.pseudojet))
    ELSE NextCombine(r.rec, Remove(r.state, d, r.rec.nearest_neighbour_idx), d)

\* ClusterGeom::next / ClusterGeomTile::next
GeomNext(s, d) ==
    IF s.failed THEN Panic(s)
    ELSE IF MinIdx(s) = USIZE_MAX THEN None(s)
    ELSE NextRemoved(Remove(s, d, MinIdx(s)), d)

\* --------------------------------------------------------- ClusterHistory
START_GEOM_THRESHOLD == 25
END_GEOM_THRESHOLD == 49
START_TILE_THRESHOLD == END_GEOM_THRESHOLD + 1

\* (a variant whose geometric range starts one pseudojet late)
SelectEngineLate(n) ==
    IF n >= START_TILE_THRESHOLD THEN "tile"
    ELSE IF START_GEOM_THRESHOLD < n /\ n <= END_GEOM_THRESHOLD THEN "geom"
    ELSE "naive"

\* the engine ClusterHistory::new boxes for an input of n pseudojets
SelectEngine(n) ==
    IF n >= START_TILE_THRESHOLD THEN "tile"
    ELSE IF START_GEOM_THRESHOLD <= n /\ n <= END_GEOM_THRESHOLD THEN "geom"
    ELSE "naive"

\* ClusterHistory::new
ClusterHistoryNew(partons, d) ==
    LET engine == SelectEngine(Len(partons))
    IN  [engine |-> engine,
         inner |-> CASE engine = "tile" -> TileNew(partons, d)
                     [] engine = "geom" -> GeomNew(partons, d)
                     [] OTHER -> NaiveNew(partons, d)]

\* the result r of the boxed engine's next(), as ClusterHistory's
Boxed(engine, r) ==
    [state |-> [engine |-> engine, inner |-> r.state],
     result |-> r.result,
     out |-> r.out]

\* ClusterHistory::next: self.0.next()
ClusterHistoryNext(h, d) ==
    Boxed(h.engine,
          IF h.engine = "naive" THEN NaiveNext(h.inner, d) ELSE GeomNext(h.inner, d))

\* the closure passed to cluster_if: |_| true (cluster), or a cut on pt2()
\* as in tst_cluster_both
AcceptAll == [kind |-> "all", cut |-> 0]
AcceptPt2(cut) == [kind |-> "pt2", cut |-> cut]
Accept(accept, jet) == accept.kind = "all" \/ Pt2(jet) > accept.cut

\* ------------------------------------------------------------ the harness
\* One input list and one distance are given to the three engines and to
\* cluster_if (which drives a ClusterHistory).  As in the cmp_* tests, which
\* zip the engines' iterators, the engines are advanced in turn: one call of
\* next() per action.  An engine that has panicked is not called again.
VARIABLES partons, distance, accept, naive, geom, tile, history,
          steps, nones, turn, jets, accept_calls, rejected

vars == <<partons, distance, accept, naive, geom, tile, history,
          steps, nones, turn, jets, accept_calls, rejected>>

EngineOrder == <<"naive", "geom", "tile", "history">>
Engines == {"naive", "geom", "tile", "history"}

\* the four-momenta the inputs are drawn from: <<E, px, py, pz>>
Particles ==
    {<<5, 4, 0, 3>>, <<5, 3, 1, 3>>, <<4, 3, 1, 2>>, <<2, 0, 0, 1>>,
     <<7, -3, 5, 2>>, <<7, 3, 5, 2>>}

PseudoJets == {InitPt2PhiRap(c) : c \in Particles}

\* the radius parameters R, in units of 1/ANGLE_ONE
Radii == {40, 120}

Measures ==
    UNION {{anti_kt(r), kt(r), cambridge_aachen(r), gen_kt(r, 0 - 1)} : r \in Radii}

Accepts == {AcceptAll, AcceptPt2(10 * ONE_K)}

Inputs == UNION {[1..n -> PseudoJets] : n \in 0..MaxN}

\* the engine's state has panicked
EngFailed(e) ==
    CASE e = "naive" -> naive.failed
      [] e = "geom" -> geom.failed
      [] e = "tile" -> tile.failed
      [] e = "history" -> history.inner.failed

\* the first engine after position k of EngineOrder (cyclically, k itself last)
\* that is still to be called; "done" if there is none
RECURSIVE FirstActive(_, _, _)
FirstActive(active, k, tried) ==
    IF tried = Len(EngineOrder) THEN "done"
    ELSE LET e == EngineOrder[(k % Len(EngineOrder)) + 1]
         IN  IF active[e] THEN e ELSE FirstActive(active, k + 1, tried + 1)

\* whose turn it is after engine e has been called, leaving it failed or not
\* and with n None results so far
NextTurn(e, failed, n) ==
    LET active == [x \in Engines |->
                     IF x = e THEN ~failed /\ n < MaxNone
                     ELSE ~EngFailed(x) /\ nones[x] < MaxNone]
    IN  FirstActive(active, Position(EngineOrder, e), 0)

Init ==
    /\ partons \in Inputs
    /\ distance \in Measures
    /\ accept \in Accepts
    /\ naive = NaiveNew(partons, distance)
    /\ geom = GeomNew(partons, distance)
    /\ tile = TileNew(partons, distance)
    /\ history = ClusterHistoryNew(partons, distance)
    /\ steps = [e \in Engines |-> <<>>]
    /\ nones = [e \in Engines |-> 0]
    /\ turn = FirstActive([e \in Engines |-> ~EngFailed(e)], 0, 0)
    /\ jets = <<>>
    /\ accept_calls = <<>>
    /\ rejected = <<>>

\* what one call of next() does to the bookkeeping of engine e
Record(e, r) ==
    /\ steps' = [steps EXCEPT ![e] = IF r.result = "Some" THEN Append(@, r.out) ELSE @]
    /\ nones' = [nones EXCEPT ![e] = IF r.result = "None" THEN @ + 1 ELSE @]
    /\ turn' = NextTurn(e, r.result = "Panic",
                        IF r.result = "None" THEN nones[e] + 1 ELSE nones[e])

\* naive.next()
NaiveStep ==
    /\ turn = "naive"
    /\ \E r \in {NaiveNext(naive, distance)} : naive' = r.state /\ Record("naive", r)
    /\ UNCHANGED <<partons, distance, accept, geom, tile, history, jets, accept_calls, rejected>>

\* geom.next()
GeomStep ==
    /\ turn = "geom"
    /\ \E r \in {GeomNext(geom, distance)} : geom' = r.state /\ Record("geom", r)
    /\ UNCHANGED <<partons, distance, accept, naive, tile, history, jets, accept_calls, rejected>>

\* tile.next()
TileStep ==
    /\ turn = "tile"
    /\ \E r \in {GeomNext(tile, distance)} : tile' = r.state /\ Record("tile", r)
    /\ UNCHANGED <<partons, distance, accept, naive, geom, history, jets, accept_calls, rejected>>

\* (a variant that keeps every Jet without asking accept)
FilterMapKeepsAll(acc, step) == IF step.kind = "Jet" THEN <<step.ops[1]>> ELSE <<>>

\* the closure of filter_map in cluster_if: Some(jet) for an accepted Jet,
\* None for everything else; as the sequence of what reaches collect()
FilterMap(acc, step) ==
    IF step.kind = "Jet" /\ Accept(acc, step.ops[1]) THEN <<step.ops[1]>> ELSE <<>>

\* one round of the filter_map of cluster_if: clustering.next(), then the
\* closure (which calls accept on a Jet)
ClusterIfStep ==
    /\ turn = "history"
    /\ \E r \in {ClusterHistoryNext(history, distance)} :
           /\ history' = r.state
           /\ Record("history", r)
           /\ accept_calls' = IF r.result = "Some" /\ r.out.kind = "Jet"
                              THEN Append(accept_calls, r.out.ops[1])
                              ELSE accept_calls
           /\ jets' = IF r.result = "Some" THEN jets \o FilterMap(accept, r.out)
                      ELSE jets
    /\ UNCHANGED <<partons, distance, accept, naive, geom, tile, rejected>>

Next == NaiveStep \/ GeomStep \/ TileStep \/ ClusterIfStep

Spec == Init /\ [][Next]_vars

\* ------------------------------------------------ inputs around the thresholds
\* ClusterHistory::new chooses the engine by the input's length; these inputs
\* have the lengths next to the two thresholds.
DispatchSizes == {0, 1, 24, 25, 26, 49, 50, 51}

\* the pseudojets with p_T > 0, in a fixed order
Visible == <<InitPt2PhiRap(<<5, 4, 0, 3>>), InitPt2PhiRap(<<5, 3, 1, 3>>),
             InitPt2PhiRap(<<4, 3, 1, 2>>), InitPt2PhiRap(<<7, -3, 5, 2>>),
             InitPt2PhiRap(<<7, 3, 5, 2>>)>>

\* an input of n pseudojets
Event(n, seed) == [i \in 1..n |-> Visible[((i * i + seed * i) % Len(Visible)) + 1]]

InitDispatch ==
    /\ partons \in {Event(n, seed) : n \in DispatchSizes, seed \in 0..1}
    /\ distance = anti_kt(40)
    /\ accept = AcceptAll
    /\ naive = NaiveNew(partons, distance)
    /\ geom = GeomNew(partons, distance)
    /\ tile = TileNew(partons, distance)
    /\ history = ClusterHistoryNew(partons, distance)
    /\ steps = [e \in Engines |-> <<>>]
    /\ nones = [e \in Engines |-> 0]
    /\ turn = FirstActive([e \in Engines |-> ~EngFailed(e)], 0, 0)
    /\ jets = <<>>
    /\ accept_calls = <<>>
    /\ rejected = <<>>

SpecDispatch == InitDispatch /\ [][Next]_vars

\* ------------------------------------------------ inputs around the phi seam
\* four-momenta with azimuths on both sides of phi = 0 / 2 pi and of phi = pi
SeamParticles ==
    {<<5, 4, 0, 3>>, <<5, 3, 1, 3>>, <<5, 3, -1, 3>>,
     <<5, -4, 0, 3>>, <<5, -3, 1, 3>>, <<5, -3, -1, 3>>}

InitSeam ==
    /\ partons \in UNION {[1..n -> {InitPt2PhiRap(c) : c \in SeamParticles}] :
                            n \in 0..MaxSeamN}
    /\ distance \in Measures
    /\ accept = AcceptAll
    /\ naive = NaiveNew(partons, distance)
    /\ geom = GeomNew(partons, distance)
    /\ tile = TileNew(partons, distance)
    /\ history = ClusterHistoryNew(partons, distance)
    /\ steps = [e \in Engines |-> <<>>]
    /\ nones = [e \in Engines |-> 0]
    /\ turn = FirstActive([e \in Engines |-> ~EngFailed(e)], 0, 0)
    /\ jets = <<>>
    /\ accept_calls = <<>>
    /\ rejected = <<>>

SpecSeam == InitSeam /\ [][Next]_vars

\* ------------------------------------------------ inputs built from f64 values
\* components as the caller has them, before pseudojet_f: some hold a NaN, and
\* <<1, 0, 0, 2>> has E < |pz|, so that its rapidity is the logarithm of a
\* negative number
RawParticles ==
    {<<5, 4, 0, 3>>, <<4, 3, 1, 2>>, <<2, 0, 0, 1>>, <<1, 0, 0, 2>>,
     <<NAN, 4, 0, 3>>, <<5, NAN, 0, 3>>, <<5, 4, NAN, 3>>, <<5, 4, 0, NAN>>}

RawInputs == UNION {[1..n -> RawParticles] : n \in 0..MaxRawN}

\* pseudojet_f has returned for c
Buildable(c) == pseudojet_f(c[1], c[2], c[3], c[4]).ok
Refused(c) == ~Buildable(c)

\* the pseudojets that the caller could build from raw, in order
Built(raw) ==
    [k \in 1..Len(SelectSeq(raw, Buildable)) |->
        FromF64(SelectSeq(raw, Buildable)[k]).pseudojet]

\* The caller builds each pseudojet with pseudojet_f; a construction that
\* panics adds nothing to the input list.
InitRaw ==
    /\ \E raw \in RawInputs :
           /\ partons = Built(raw)
           /\ rejected = SelectSeq(raw, Refused)
    /\ distance \in Measures
    /\ accept = AcceptAll
    /\ naive = NaiveNew(partons, distance)
    /\ geom = GeomNew(partons, distance)
    /\ tile = TileNew(partons, distance)
    /\ history = ClusterHistoryNew(partons, distance)
    /\ steps = [e \in Engines |-> <<>>]
    /\ nones = [e \in Engines |-> 0]
    /\ turn = FirstActive([e \in Engines |-> ~EngFailed(e)], 0, 0)
    /\ jets = <<>>
    /\ accept_calls = <<>>

SpecRaw == InitRaw /\ [][Next]_vars

\* ------------------------------------------------ inputs that outlive a merge
\* With four inputs a merged pseudojet is pushed next to two others; these
\* three four-momenta are within R of each other for both radii.
PushParticles == {<<5, 4, 0, 3>>, <<5, 3, 1, 3>>, <<4, 3, 1, 2>>}

InitPush ==
    /\ partons \in UNION {[1..n -> {InitPt2PhiRap(c) : c \in PushParticles}] :
                            n \in 0..MaxPushN}
    /\ distance \in Measures
    /\ accept = AcceptAll
    /\ naive = NaiveNew(partons, distance)
    /\ geom = GeomNew(partons, distance)
    /\ tile = TileNew(partons, distance)
    /\ history = ClusterHistoryNew(partons, distance)
    /\ steps = [e \in Engines |-> <<>>]
    /\ nones = [e \in Engines |-> 0]
    /\ turn = FirstActive([e \in Engines |-> ~EngFailed(e)], 0, 0)
    /\ jets = <<>>
    /\ accept_calls = <<>>
    /\ rejected = <<>>

SpecPush == InitPush /\ [][Next]_vars

\* ------------------------------------------------ inputs with equal distances
\* Four-momenta at azimuth 0 whose rapidities are 0, ln 2 and -ln 2: the outer
\* two are at the same delta_r2 from the middle one, in different tiles, and
\* every sum of them lies in the 3x3 window of every other.
TieParticles == {<<4, 4, 0, 0>>, <<5, 4, 0, 3>>, <<5, 4, 0, -3>>}

InitTie ==
    /\ partons \in UNION {[1..n -> {InitPt2PhiRap(c) : c \in TieParticles}] :
                            n \in 0..MaxTieN}
    /\ distance \in Measures
    /\ accept = AcceptAll
    /\ naive = NaiveNew(partons, distance)
    /\ geom = GeomNew(partons, distance)
    /\ tile = TileNew(partons, distance)
    /\ history = ClusterHistoryNew(partons, distance)
    /\ steps = [e \in Engines |-> <<>>]
    /\ nones = [e \in Engines |-> 0]
    /\ turn = FirstActive([e \in Engines |-> ~EngFailed(e)], 0, 0)
    /\ jets = <<>>
    /\ accept_calls = <<>>
    /\ rejected = <<>>

SpecTie == InitTie /\ [][Next]_vars

\* -------------------------------------------- inputs spread over the tile grid
\* Four-momenta along the beam (pt2 = 0, rapidity +infinity and -infinity: the
\* last and the first row of tiles), at rapidity ln 2 with azimuths 0, -0.32
\* and pi (phi bins 0, N_PHI_BINS - 1 and N_PHI_BINS / 2), at rapidity 0
\* with an azimuth less than half a grid step below 0, and at rapidity 3.05
\* (the row below the last) with azimuth 0.
EdgeParticles ==
    {<<1, 0, 0, 1>>, <<1, 0, 0, -1>>, <<5, 4, 0, 3>>, <<5, 3, -1, 3>>, <<5, -4, 0, 3>>,
     <<320, 256, -1, 0>>, <<225, 1, 0, 224>>}

InitEdge ==
    /\ partons \in UNION {[1..n -> {InitPt2PhiRap(c) : c \in EdgeParticles}] :
                            n \in 0..MaxEdgeN}
    /\ distance \in Measures
    /\ accept = AcceptAll
    /\ naive = NaiveNew(partons, distance)
    /\ geom = GeomNew(partons, distance)
    /\ tile = TileNew(partons, distance)
    /\ history = ClusterHistoryNew(partons, distance)
    /\ steps = [e \in Engines |-> <<>>]
    /\ nones = [e \in Engines |-> 0]
    /\ turn = FirstActive([e \in Engines |-> ~EngFailed(e)], 0, 0)
    /\ jets = <<>>
    /\ accept_calls = <<>>
    /\ rejected = <<>>

SpecEdge == InitEdge /\ [][Next]_vars

\* ================================================================ properties
\* the active pseudojets of an engine, in index order
Bare(records) == [k \in 1..Len(records) |-> records[k].pseudojet]

ActiveOf(e) ==
    CASE e = "naive" -> naive.pseudojets
      [] e = "geom" -> Bare(geom.pseudojets)
      [] e = "tile" -> Bare(tile.pseudojets)
      [] e = "history" -> IF history.engine = "naive" THEN history.inner.pseudojets
                          ELSE Bare(history.inner.pseudojets)

\* two step sequences agree position by position as far as both go
SameSteps(a, b) == \A k \in 1..Min(Len(a), Len(b)) : StepEq(a[k], b[k])

\* no engine will be called again: each is exhausted or has panicked
Stopped == turn = "done"

IsJet(step) == step.kind = "Jet"
IsCombine(step) == step.kind = "Combine"

\* the payloads of the Jet steps of a step sequence, in order
JetPayloads(ss) == LET js == SelectSeq(ss, IsJet) IN [k \in 1..Len(js) |-> js[k].ops[1]]

\* C1: on the same input and distance, ClusterNaive and ClusterGeom emit
\* identical step sequences: position by position the steps are equal
\* (Combine compared order-insensitively), and once both have stopped they
\* have emitted the same number of steps; ties in the distances included.
C1_NaiveGeomIdentical ==
    /\ SameSteps(steps.naive, steps.geom)
    /\ Stopped => Len(steps.naive) = Len(steps.geom)

\* C2: on the same input and distance, whatever the radius R, ClusterNaive and
\* ClusterGeomTile emit identical step sequences (same length, equal steps
\* position by position, Combine compared order-insensitively).
C2_NaiveTileIdentical ==
    /\ SameSteps(steps.naive, steps.tile)
    /\ Stopped => Len(steps.naive) = Len(steps.tile)

\* C3: every engine and the facade, on N pseudojets, emit exactly N steps
\* before they stop, each step reducing the number of active pseudojets by
\* one: after k steps N - k pseudojets are active, and an engine that is not
\* called any more has emitted N steps.
C3_ExactlyNSteps ==
    \A e \in Engines :
        /\ Len(ActiveOf(e)) = Len(partons) - Len(steps[e])
        /\ Stopped => Len(steps[e]) = Len(partons)

\* the sum of component c over a sequence of pseudojets, as real numbers
RECURSIVE SumComp(_, _)
SumComp(ps, c) == IF ps = <<>> THEN 0 ELSE Head(ps).comp[c] + SumComp(Tail(ps), c)

\* the same sum accumulated in floating point, front to back
RECURSIVE FSumComp(_, _, _)
FSumComp(ps, c, acc) ==
    IF ps = <<>> THEN acc ELSE FSumComp(Tail(ps), c, FAdd(acc, Head(ps).comp[c]))

\* the addition of the operands of a Combine step is not rounded
ExactStep(step) ==
    IsCombine(step) =>
        \A c \in 1..D : FAdd(step.ops[1].comp[c], step.ops[2].comp[c])
                        = step.ops[1].comp[c] + step.ops[2].comp[c]

AllExact(ss) == \A k \in 1..Len(ss) : ExactStep(ss[k])

\* C4 as stated: for every engine, after construction and after every call of
\* next that has returned, the emitted jets and the still active pseudojets
\* sum, component by component and with exact floating-point equality, to the
\* sum of the input pseudojets (so the emitted jets alone do once the engine
\* is exhausted).
C4_SumConserved ==
    \A e \in Engines : \A c \in 1..D :
        ~EngFailed(e) =>
            FSumComp(JetPayloads(steps[e]) \o ActiveOf(e), c, 0) = FSumComp(partons, c, 0)

\* C4 amended: for every engine, after construction and after every call of
\* next that has returned, if no Combine step emitted so far has rounded the
\* sum of its operands, then the emitted jets and the still active pseudojets
\* sum, as real numbers, to the sum of the input pseudojets.
C4_SumConservedWhenExact ==
    \A e \in Engines : \A c \in 1..D :
        (~EngFailed(e) /\ AllExact(steps[e])) =>
            SumComp(JetPayloads(steps[e]) \o ActiveOf(e), c) = SumComp(partons, c)

\* an engine is exhausted after merges none of which was rounded, having
\* emitted fewer jets than it was given pseudojets
C4_Witness ==
    \E e \in Engines :
        /\ nones[e] >= 1
        /\ AllExact(steps[e])
        /\ \E k \in 1..Len(steps[e]) : IsCombine(steps[e][k])
        /\ Len(JetPayloads(steps[e])) >= 2

\* the current distances of the pseudojets ps (1-based indices)
PairsOf(ps) == {pr \in (1..Len(ps)) \X (1..Len(ps)) : pr[1] < pr[2]}
PairDist(ps, pr) == Distance(distance, ps[pr[1]], ps[pr[2]])
BeamDist(ps, i) == BeamDistance(distance, ps[i])

\* the beam distance of i is strictly below every other current distance
StrictlyLeastBeam(ps, i) ==
    /\ \A k \in 1..Len(ps) : k # i => BeamDist(ps, i) < BeamDist(ps, k)
    /\ \A pr \in PairsOf(ps) : BeamDist(ps, i) < PairDist(ps, pr)

\* the distance of the pair pr is strictly below every other current distance
StrictlyLeastPair(ps, pr) ==
    /\ \A k \in 1..Len(ps) : PairDist(ps, pr) < BeamDist(ps, k)
    /\ \A qr \in PairsOf(ps) : qr # pr => PairDist(ps, pr) < PairDist(ps, qr)

\* the step is the one a strictly least distance among ps asks for
Decides(ps, step) ==
    /\ \A i \in 1..Len(ps) : StrictlyLeastBeam(ps, i) => StepEq(step, Jet(ps[i]))
    /\ \A pr \in PairsOf(ps) :
          StrictlyLeastPair(ps, pr) => StepEq(step, Combine(ps[pr[1]], ps[pr[2]]))

\* a call of next() on engine e with active pseudojets emits a step, and the
\* step is the one the strictly least distance asks for
LeastDecidesCall(e) ==
    (turn = e /\ ActiveOf(e) # <<>>) =>
        /\ Len(steps'[e]) = Len(steps[e]) + 1
        /\ Decides(ActiveOf(e), steps'[e][Len(steps'[e])])

\* C5: at every step of every engine the globally smallest current distance
\* decides: a beam distance strictly below every other beam and pair distance
\* gives Jet of that pseudojet, a pair distance strictly below every beam and
\* every other pair distance gives Combine of exactly that pair.
C5_LeastDistanceDecides == [][\A e \in Engines : LeastDecidesCall(e)]_vars

\* C6: ClusterHistory::new runs the naive engine iff N <= 24, the untiled
\* geometric engine iff 25 <= N <= 49 and the tiled one iff N >= 50, and the
\* facade's steps are exactly those of the selected engine on the same input.
C6_Dispatch ==
    LET n == Len(partons)
        selected == history.engine
    IN  /\ selected = "naive" <=> n <= 24
        /\ selected = "geom" <=> (25 <= n /\ n <= 49)
        /\ selected = "tile" <=> n >= 50
        /\ Len(steps.history) <= Len(steps[selected])
        /\ steps.history = SubSeq(steps[selected], 1, Len(steps.history))
        /\ Stopped => steps.history = steps[selected]

\* the facade has run the tiled engine on 50 pseudojets to exhaustion
C6_Witness ==
    /\ Len(partons) = 50
    /\ history.engine = "tile"
    /\ nones.history >= 1
    /\ Len(steps.history) = 50

\* C7: cluster_if returns exactly the payloads of the Jet steps of the cluster
\* history that accept accepted, in emission order, having called accept once
\* per Jet step and never for a Combine step; with accept always true (cluster)
\* the result has one entry per Jet step.
C7_ClusterIfResult ==
    LET payloads == JetPayloads(steps.history)
        Accepted(p) == Accept(accept, p)
    IN  /\ jets = SelectSeq(payloads, Accepted)
        /\ accept_calls = payloads
        /\ accept = AcceptAll => Len(jets) = Len(SelectSeq(steps.history, IsJet))

\* cluster_if has returned, with a cut that accepted some jets and rejected
\* others, after a history with a Combine step
C7_Witness ==
    /\ nones.history >= 1
    /\ accept # AcceptAll
    /\ jets # <<>>
    /\ Len(jets) < Len(accept_calls)
    /\ \E k \in 1..Len(steps.history) : IsCombine(steps.history[k])

\* C8: with no input pseudojets no engine and no facade fails or emits a step:
\* every call of next, the first included, returns None, and cluster /
\* cluster_if return the empty list.
C8_EmptyInput ==
    partons = <<>> =>
        /\ \A e \in Engines : ~EngFailed(e) /\ steps[e] = <<>>
        /\ Stopped => \A e \in Engines : nones[e] = MaxNone
        /\ jets = <<>>

\* every engine and the facade have been called on the empty input
C8_Witness == partons = <<>> /\ \A e \in Engines : nones[e] >= 1

\* the state of engine e
EngineState(e) ==
    CASE e = "naive" -> naive
      [] e = "geom" -> geom
      [] e = "tile" -> tile
      [] e = "history" -> history

\* a call of next() on engine e returns None exactly if nothing is active, and
\* after a None it returns None again and leaves the engine as it was
NoneCall(e) ==
    turn = e =>
        /\ nones'[e] = nones[e] + 1 <=> ActiveOf(e) = <<>>
        /\ nones[e] >= 1 => (nones'[e] = nones[e] + 1 /\ EngineState(e)' = EngineState(e))

\* C9: for every engine next returns None iff no active pseudojets remain, and
\* once it has returned None every later call returns None and leaves the
\* engine's state unchanged.
C9_NoneIffExhausted == [][\A e \in Engines : NoneCall(e)]_vars

\* every engine has clustered two or more pseudojets and has then been called
\* twice more
C9_Witness ==
    /\ Len(partons) >= 2
    /\ \A e \in Engines : nones[e] >= 2 /\ Len(steps[e]) = Len(partons)

ZeroPt(p) == p.inv_pt2 = INF

\* C10: under anti-kt, in every engine, a pseudojet with pt2 = 0 is never an
\* operand of a Combine step, and every such input has been emitted as a Jet
\* step by the time the engine is not called any more.
C10_AntiKtZeroPtIsJet ==
    distance.kind = "AntiKt" =>
        \A e \in Engines :
            /\ \A k \in 1..Len(steps[e]) :
                  IsCombine(steps[e][k]) =>
                      ~ZeroPt(steps[e][k].ops[1]) /\ ~ZeroPt(steps[e][k].ops[2])
            /\ Stopped =>
                  \A i \in 1..Len(partons) :
                      ZeroPt(partons[i]) =>
                          \E k \in 1..Len(steps[e]) : steps[e][k] = Jet(partons[i])

\* two active pseudojets have the same (rapidity, azimuth) and pair distance 0
Coincident(ps, d) ==
    \E i, j \in 1..Len(ps) :
        /\ i # j
        /\ ps[i].rap = ps[j].rap
        /\ ps[i].phi = ps[j].phi
        /\ Distance(d, ps[i], ps[j]) = 0

\* every beam distance is positive
BeamsPositive(ps, d) == \A i \in 1..Len(ps) : BeamDistance(d, ps[i]) > 0

\* the step engine e has just emitted
LastStep(e) == steps[e][Len(steps[e])]

\* a call of next() on engine e whose active set holds a coincident pair (and
\* positive beam distances) returns a Combine of two pseudojets with delta_r2 0
MergesCoincident(e) ==
    (turn = e /\ Coincident(ActiveOf(e), distance) /\ BeamsPositive(ActiveOf(e), distance))
        => /\ ~EngFailed(e)'
           /\ Len(steps'[e]) = Len(steps[e]) + 1
           /\ IsCombine(LastStep(e)')
           /\ DeltaR2(LastStep(e)'.ops[1], LastStep(e)'.ops[2]) = 0

\* C11: in every engine, when the active set holds two (or more) pseudojets
\* with identical (rapidity, azimuth) at pair distance 0 and all beam
\* distances are positive, the next step completes without a panic and is a
\* Combine of two pseudojets with delta_r2 = 0; and a run whose input holds
\* such a pair completes: no engine has panicked when none is called any more.
C11_CoincidentMerge ==
    [][/\ \A e \in Engines : MergesCoincident(e)
       /\ (Stopped' /\ Coincident(partons, distance) /\ BeamsPositive(partons, distance))
              => \A e \in Engines : ~EngFailed(e)']_vars

\* the part of C11 about the next step alone
C11_NextStepMerges == [][\A e \in Engines : MergesCoincident(e)]_vars

\* a step with the operand slots of a Combine exchanged
Flip(step) == IF IsCombine(step) THEN Combine(step.ops[2], step.ops[1]) ELSE step

\* the steps the engines have emitted so far, and the same with slots exchanged
Emitted == UNION {{steps[e][k] : k \in 1..Len(steps[e])} : e \in Engines}
EmittedOrFlipped == Emitted \cup {Flip(x) : x \in Emitted}

\* C12: for the steps the engines emit (and those with exchanged operands):
\* Combine([a, b]) equals Combine([b, a]) and both feed the same data to the
\* hasher; equal steps feed the same data; a Jet never equals a Combine; the
\* equality is reflexive, symmetric and transitive.
C12_StepEquality ==
    \A x, y \in EmittedOrFlipped :
        /\ StepEq(x, Flip(x)) /\ HashFeed(x) = HashFeed(Flip(x))
        /\ StepEq(x, y) => HashFeed(x) = HashFeed(y)
        /\ (IsJet(x) /\ IsCombine(y)) => (~StepEq(x, y) /\ ~StepEq(y, x))
        /\ StepEq(x, x)
        /\ StepEq(x, y) => StepEq(y, x)
        /\ \A z \in EmittedOrFlipped : (StepEq(x, y) /\ StepEq(y, z)) => StepEq(x, z)

\* two engines have emitted the same Combine with the operands in opposite
\* slots, and a Jet has been emitted
C12_Witness ==
    /\ \E x, y \in Emitted : IsCombine(x) /\ x.ops[1] # x.ops[2] /\ y = Flip(x)
    /\ \E x \in Emitted : IsJet(x)

\* every scalar of the pseudojet is finite
FinitePJ(p) ==
    /\ \A k \in 1..D : ~IsInf(p.comp[k]) /\ ~IsNaN(p.comp[k])
    /\ ~IsInf(p.inv_pt2) /\ ~IsInf(p.rap) /\ ~PJInvalid(p)

\* the pseudojets at hand: the inputs and what the engines hold
AtHand ==
    {partons[k] : k \in 1..Len(partons)}
        \cup UNION {{ActiveOf(e)[k] : k \in 1..Len(ActiveOf(e))} : e \in Engines}

\* a distance value: not a NaN (whose computation panics) and not negative
NonNegative(x) == ~IsNaN(x) /\ x >= 0

\* C14: for the measure in use and all pseudojets a, b at hand: distance(a, b)
\* equals distance(b, a) and is a value >= 0, distance(a, a) is 0 for a finite
\* a, and beam_distance(a) is a value >= 0.
C14_DistanceProperties ==
    \A a, b \in AtHand :
        /\ Distance(distance, a, b) = Distance(distance, b, a)
        /\ NonNegative(Distance(distance, a, b))
        /\ FinitePJ(a) => Distance(distance, a, a) = 0
        /\ NonNegative(BeamDistance(distance, a))

\* the same for the pseudojets with pt2 > 0 and a finite rapidity only
C14_FiniteOnly ==
    \A a, b \in {p \in AtHand : FinitePJ(p)} :
        /\ Distance(distance, a, b) = Distance(distance, b, a)
        /\ NonNegative(Distance(distance, a, b))
        /\ Distance(distance, a, a) = 0
        /\ NonNegative(BeamDistance(distance, a))

\* the cached scalars of p are those init_pt2_phi_rap computes from p.comp
Consistent(p) ==
    /\ p.inv_pt2 = InitPt2PhiRap(p.comp).inv_pt2
    /\ p.phi = InitPt2PhiRap(p.comp).phi
    /\ p.rap = InitPt2PhiRap(p.comp).rap

\* the operands of the steps emitted so far
EmittedOperands == UNION {{x.ops[k] : k \in 1..Len(x.ops)} : x \in Emitted}

\* an engine holds a pseudojet that is not one of the inputs: a merged one
HoldsMerged(e) ==
    \E k \in 1..Len(ActiveOf(e)) :
        \A i \in 1..Len(partons) : ActiveOf(e)[k] # partons[i]

\* C15: the cached scalars (inv_pt2, phi, rap) of every input, of every
\* pseudojet an engine holds or has emitted (merged ones included), and of
\* every sum a + b and difference a - b of pseudojets at hand are the values
\* init_pt2_phi_rap computes from the components; the default pseudojet has
\* inv_pt2 = +infinity, phi = 0 and rap = 0, which are those values too.
C15_CachesConsistent ==
    /\ \A p \in AtHand \cup EmittedOperands : Consistent(p)
    /\ \A a, b \in AtHand : Consistent(PJAdd(a, b)) /\ Consistent(PJSub(a, b))
    /\ DefaultPseudoJet.inv_pt2 = INF /\ DefaultPseudoJet.phi = 0
    /\ DefaultPseudoJet.rap = 0 /\ Consistent(DefaultPseudoJet)

\* every engine holds a merged pseudojet
C15_Witness == \A e \in Engines : HoldsMerged(e)

\* the azimuth lies in [0, 2 pi)
PhiInRange(p) == 0 <= p.phi /\ p.phi < TWO_PI

\* the two azimuths differ by more than pi: the short way crosses the seam
AcrossSeam(a, b) == Abs(a.phi - b.phi) > PI

\* C16: for pseudojets a, b with azimuths in [0, 2 pi): delta_phi_abs(a, b)
\* lies in [0, pi] and is min(|phi_a - phi_b|, 2 pi - |phi_a - phi_b|);
\* delta_phi(a, b) lies in (-pi, pi]; and |delta_phi(a, b)| = delta_phi_abs(a, b).
C16_DeltaPhi ==
    \A a, b \in {p \in AtHand : PhiInRange(p)} :
        /\ 0 <= DeltaPhiAbs(a, b) /\ DeltaPhiAbs(a, b) <= PI
        /\ DeltaPhiAbs(a, b) = Min(Abs(a.phi - b.phi), TWO_PI - Abs(a.phi - b.phi))
        /\ 0 - PI < DeltaPhi(a, b) /\ DeltaPhi(a, b) <= PI
        /\ Abs(DeltaPhi(a, b)) = DeltaPhiAbs(a, b)

\* every engine has combined two pseudojets across the seam
C16_Witness ==
    \A e \in Engines :
        \E k \in 1..Len(steps[e]) :
            IsCombine(steps[e][k]) /\ AcrossSeam(steps[e][k].ops[1], steps[e][k].ops[2])

\* a component of the four-momentum is NaN
HasNaN(c) == \E i \in 1..D : IsNaN(c[i])

PartnerOk(r, d) ==
    ~r.state.failed =>
        /\ r.rec.nearest_neighbour_idx = USIZE_MAX => r.rec.beam_dist < r.rec.nearest_dist
        /\ ~(r.rec.beam_dist < r.rec.nearest_dist) =>
              /\ r.rec.nearest_neighbour_idx < Len(r.state.pseudojets)
              /\ ~Remove(r.state, d, r.rec.nearest_neighbour_idx).state.failed

PartnerValid(s, d) ==
    (~s.failed /\ MinIdx(s) # USIZE_MAX) => PartnerOk(Remove(s, d, MinIdx(s)), d)

\* C18: in ClusterGeom and ClusterGeomTile, whenever next() has a record to
\* remove: if the record has no nearest neighbour it is emitted as a Jet,
\* whatever its beam distance; and in the merge branch its partner index is a
\* valid active index, so that remove(j) does not fail.
C18_PartnerValid == PartnerValid(geom, distance) /\ PartnerValid(tile, distance)

\* how often v occurs in list
Count(list, v) == Cardinality({k \in 1..Len(list) : list[k] = v})

\* the reverse lists of s mirror its nearest-neighbour pointers
Lockstep(s) ==
    \A i \in 0..(Len(s.pseudojets) - 1) :
        /\ \A k \in 1..Len(At(s, i).nearest_neighbour_for) :
              At(s, i).nearest_neighbour_for[k] < Len(s.pseudojets)
        /\ \A j \in 0..(Len(s.pseudojets) - 1) :
              Count(At(s, i).nearest_neighbour_for, j)
                  = IF At(s, j).nearest_neighbour_idx = i THEN 1 ELSE 0

\* C19: in ClusterGeom and ClusterGeomTile, as constructed and after every
\* call of next() that has not panicked: j is in nearest_neighbour_for(i)
\* exactly if nearest_neighbour_idx(j) = i, then exactly once, and no reverse
\* list holds an index that is not below the number of active pseudojets.
C19_ReverseLockstep ==
    /\ ~geom.failed => Lockstep(geom)
    /\ ~tile.failed => Lockstep(tile)

\* s has pushed a merged pseudojet and holds it with another one, each the
\* nearest neighbour of the other
LinkedAfterMerge(e, s) ==
    /\ ~s.failed
    /\ \E k \in 1..Len(steps[e]) : IsCombine(steps[e][k])
    /\ Len(s.pseudojets) = 2
    /\ At(s, 0).nearest_neighbour_for = <<1>>
    /\ At(s, 1).nearest_neighbour_for = <<0>>

C19_Witness == LinkedAfterMerge("geom", geom) /\ LinkedAfterMerge("tile", tile)

\* the stored nearest_dist of record i of s is the distance to the pseudojet
\* its pointer names, or the sentinel N64::max_value() if it names none
DistStored(s, d, i) ==
    IF At(s, i).nearest_neighbour_idx < Len(s.pseudojets)
    THEN At(s, i).nearest_dist
             = Distance(d, At(s, i).pseudojet,
                        At(s, At(s, i).nearest_neighbour_idx).pseudojet)
    ELSE At(s, i).nearest_neighbour_idx = USIZE_MAX /\ At(s, i).nearest_dist = MAXV

DistsStored(s, d) == \A i \in 0..(Len(s.pseudojets) - 1) : DistStored(s, d, i)

\* C20: in ClusterGeom and ClusterGeomTile, as constructed and after every
\* call of next() that has not panicked, every record's nearest_dist is the
\* distance between its pseudojet and the one its pointer names, and the
\* sentinel if its pointer names none; records redirected to a pushed merged
\* pseudojet included.
C20_NearestDistStored ==
    /\ ~geom.failed => DistsStored(geom, distance)
    /\ ~tile.failed => DistsStored(tile, distance)

\* the candidate set of record i of s, as a set
CandidateSet(s, i) == {Candidates(s, i)[k] : k \in 1..Len(Candidates(s, i))}

\* the pointer of record i of s names no one, or a candidate that is as near
\* to i in delta_r2 as every candidate
PointsAtNearest(s, i) ==
    \/ At(s, i).nearest_neighbour_idx = USIZE_MAX
    \/ /\ At(s, i).nearest_neighbour_idx < Len(s.pseudojets)
       /\ At(s, i).nearest_neighbour_idx # i
       /\ At(s, i).nearest_neighbour_idx \in CandidateSet(s, i)
       /\ \A c \in CandidateSet(s, i) :
              RecDeltaR2(At(s, i), At(s, At(s, i).nearest_neighbour_idx))
                  <= RecDeltaR2(At(s, i), At(s, c))

AllPointAtNearest(s) == \A i \in 0..(Len(s.pseudojets) - 1) : PointsAtNearest(s, i)

\* C21: in ClusterGeom and ClusterGeomTile, as constructed and after every
\* call of next() that has not panicked, the pointer of every active record
\* is the sentinel or a valid index of another record that minimises delta_r2
\* over the record's candidates (all others; the occupants of the 3x3 window
\* for the tiled engine), the pointers that push assigns or redirects included.
C21_PointerIsNearest ==
    /\ ~geom.failed => AllPointAtNearest(geom)
    /\ ~tile.failed => AllPointAtNearest(tile)

\* the beam distances and the pair distances of the pseudojets ps, computed
\* anew by the measure d
FreshDistances(ps, d) ==
    {BeamDistance(d, ps[i]) : i \in 1..Len(ps)}
        \cup UNION {{Distance(d, ps[i], ps[j]) : j \in (i + 1)..Len(ps)} : i \in 1..Len(ps)}

\* the least element of a non-empty set of distances
Least(S) == CHOOSE v \in S : \A w \in S : v <= w

\* the least min_dist of the records of s
StoredLeast(s) == Least({MinDist(s.pseudojets[k]) : k \in 1..Len(s.pseudojets)})

\* C22: whenever ClusterGeom holds a pseudojet and has not panicked, the
\* least min(beam_dist, nearest_dist) of its records is the least of the beam
\* distances and pair distances of its pseudojets computed anew.
C22_StoredMinIsFreshMin ==
    (~geom.failed /\ geom.pseudojets # <<>>) =>
        StoredLeast(geom) = Least(FreshDistances(Bare(geom.pseudojets), distance))

\* the tiles of s hold each active index once, in the tile of its pseudojet,
\* and nothing else
TilesPartition(s) ==
    /\ \A i \in 0..(Len(s.pseudojets) - 1) :
           Count(s.tiles[TileCoord(At(s, i).pseudojet)[1]][TileCoord(At(s, i).pseudojet)[2]], i) = 1
    /\ \A r \in 0..(N_RAP_BINS - 1), f \in 0..(N_PHI_BINS - 1) :
           \A k \in 1..Len(s.tiles[r][f]) :
              /\ s.tiles[r][f][k] < Len(s.pseudojets)
              /\ TileCoord(At(s, s.tiles[r][f][k]).pseudojet) = <<r, f>>

\* the state that remove(min_idx()) leaves, if there is a record to remove
AfterRemove(s, d) ==
    IF s.failed \/ MinIdx(s) = USIZE_MAX THEN s ELSE Remove(s, d, MinIdx(s)).state

\* the state that the second remove of next() leaves, given the result r of
\* the first one, if next() takes the merge branch
AfterPartner(r, d) ==
    IF r.state.failed \/ r.rec.beam_dist < r.rec.nearest_dist THEN r.state
    ELSE Remove(r.state, d, r.rec.nearest_neighbour_idx).state

AfterRemoves(s, d) ==
    IF s.failed \/ MinIdx(s) = USIZE_MAX THEN s
    ELSE AfterPartner(Remove(s, d, MinIdx(s)), d)

\* C23: in ClusterGeomTile, as constructed, after every call of next() and
\* after each remove that next() makes (none of them panicking), every
\* active index is in exactly one tile, the tile of its pseudojet, and no
\* tile holds an index that is not below the number of active pseudojets.
C23_TilesPartition ==
    /\ ~tile.failed => TilesPartition(tile)
    /\ ~AfterRemove(tile, distance).failed => TilesPartition(AfterRemove(tile, distance))
    /\ ~AfterRemoves(tile, distance).failed => TilesPartition(AfterRemoves(tile, distance))

\* the tiled engine has merged and holds pseudojets in two tiles
C23_Witness ==
    /\ ~tile.failed
    /\ \E k \in 1..Len(steps.tile) : IsCombine(steps.tile[k])
    /\ \E i, j \in 0..(Len(tile.pseudojets) - 1) :
           TileCoord(At(tile, i).pseudojet) # TileCoord(At(tile, j).pseudojet)

\* swap(i, j) on s leaves the tiles a partition by the pseudojets' tiles
SwapKeepsTiles(s, i, j) == ~Swap(s, i, j).failed => TilesPartition(Swap(s, i, j))

\* C24: in every state of ClusterGeomTile, swap(i, j) for active i # j
\* leaves every active index in exactly the tile of the pseudojet then stored
\* at that index, also when the pseudojets at i and j lie in the same tile.
C24_SwapKeepsTiles ==
    ~tile.failed =>
        \A i, j \in 0..(Len(tile.pseudojets) - 1) : i # j => SwapKeepsTiles(tile, i, j)

\* the transposition (i j) applied to an index or to the sentinel
Transposed(k, i, j) == IF k = i THEN j ELSE IF k = j THEN i ELSE k

\* the members of a reverse list
Members(list) == {list[k] : k \in 1..Len(list)}

\* record k of s is found in t at the transposed index, with its pointer and
\* its reverse list transposed and everything else as it was
RecordRenamed(s, t, k, i, j) ==
    /\ At(t, Transposed(k, i, j)).pseudojet = At(s, k).pseudojet
    /\ At(t, Transposed(k, i, j)).beam_dist = At(s, k).beam_dist
    /\ At(t, Transposed(k, i, j)).nearest_dist = At(s, k).nearest_dist
    /\ At(t, Transposed(k, i, j)).nearest_neighbour_idx
           = Transposed(At(s, k).nearest_neighbour_idx, i, j)
    /\ Len(At(t, Transposed(k, i, j)).nearest_neighbour_for)
           = Len(At(s, k).nearest_neighbour_for)
    /\ Members(At(t, Transposed(k, i, j)).nearest_neighbour_for)
           = {Transposed(x, i, j) : x \in Members(At(s, k).nearest_neighbour_for)}

\* t is s renamed by the transposition (i j)
Renamed(s, t, i, j) ==
    /\ ~t.failed
    /\ Len(t.pseudojets) = Len(s.pseudojets)
    /\ \A k \in 0..(Len(s.pseudojets) - 1) : RecordRenamed(s, t, k, i, j)

SwapRenames(s) ==
    ~s.failed =>
        \A i, j \in 0..(Len(s.pseudojets) - 1) : i # j => Renamed(s, Swap(s, i, j), i, j)

\* C25: in every state of ClusterGeom and ClusterGeomTile, swap(i, j) for
\* active i # j exchanges the records at i and j and replaces i by j and j by
\* i in every pointer and every reverse list, leaving all else as it was.
C25_SwapRenames == SwapRenames(geom) /\ SwapRenames(tile)

\* ClusterGeom holds two records that are each other's nearest neighbour and
\* two that have the same nearest neighbour; ClusterGeomTile holds several
\* records, one of them without nearest neighbour; and the next remove of
\* either swaps two different indices
C25_Witness ==
    /\ ~geom.failed /\ ~tile.failed
    /\ MinIdx(geom) < Len(geom.pseudojets) - 1
    /\ MinIdx(tile) < Len(tile.pseudojets) - 1
    /\ \E i, j \in 0..(Len(geom.pseudojets) - 1) :
           /\ i # j
           /\ At(geom, i).nearest_neighbour_idx = j
           /\ At(geom, j).nearest_neighbour_idx = i
    /\ \E i, j \in 0..(Len(geom.pseudojets) - 1) :
           /\ i # j
           /\ At(geom, i).nearest_neighbour_idx = At(geom, j).nearest_neighbour_idx
    /\ \E i, j \in 0..(Len(tile.pseudojets) - 1) :
           i # j /\ At(tile, i).nearest_neighbour_idx = USIZE_MAX

\* record k of s did not name i and survives remove(i) in t, at index i if it
\* was the last one: its pseudojet, its distances and the record it points to
\* are what they were
RecordKept(s, t, k, i) ==
    /\ At(t, Transposed(k, i, Len(s.pseudojets) - 1)).pseudojet = At(s, k).pseudojet
    /\ At(t, Transposed(k, i, Len(s.pseudojets) - 1)).beam_dist = At(s, k).beam_dist
    /\ At(t, Transposed(k, i, Len(s.pseudojets) - 1)).nearest_dist = At(s, k).nearest_dist
    /\ At(t, Transposed(k, i, Len(s.pseudojets) - 1)).nearest_neighbour_idx
           = Transposed(At(s, k).nearest_neighbour_idx, i, Len(s.pseudojets) - 1)

\* record k of s named i and survives remove(i) in t: its nearest neighbour
\* and its nearest_dist are computed anew
RecordRecomputed(s, t, d, k, i) ==
    /\ At(t, Transposed(k, i, Len(s.pseudojets) - 1)).pseudojet = At(s, k).pseudojet
    /\ At(t, Transposed(k, i, Len(s.pseudojets) - 1)).beam_dist = At(s, k).beam_dist
    /\ PointsAtNearest(t, Transposed(k, i, Len(s.pseudojets) - 1))
    /\ DistStored(t, d, Transposed(k, i, Len(s.pseudojets) - 1))

\* t is what remove(i) is to leave of s
RemovedFrom(s, t, d, i) ==
    /\ Len(t.pseudojets) = Len(s.pseudojets) - 1
    /\ \A k \in 0..(Len(t.pseudojets) - 1) :
           At(t, k).nearest_neighbour_idx = USIZE_MAX
               \/ At(t, k).nearest_neighbour_idx < Len(t.pseudojets)
    /\ \A k \in (0..(Len(s.pseudojets) - 1)) \ {i} :
           IF At(s, k).nearest_neighbour_idx = i
           THEN RecordRecomputed(s, t, d, k, i)
           ELSE RecordKept(s, t, k, i)

RemoveRecomputesNamers(s, d) ==
    ~s.failed =>
        \A i \in 0..(Len(s.pseudojets) - 1) :
            ~Remove(s, d, i).state.failed => RemovedFrom(s, Remove(s, d, i).state, d, i)

\* C26: in every state of ClusterGeom, between calls of next() and between
\* the two removes of a merge, remove(i) leaves every surviving record that
\* did not name i with its pseudojet, its nearest_dist, its beam_dist and the
\* record it points to (the last index renamed to i), computes the nearest
\* neighbour of the records that named i anew, and leaves no pointer at the
\* removed pseudojet.
C26_RemoveRecomputesNamers ==
    /\ RemoveRecomputesNamers(geom, distance)
    /\ RemoveRecomputesNamers(AfterRemove(geom, distance), distance)

\* ClusterGeom holds three records: one names record 0 as its nearest
\* neighbour and one does not
C26_Witness ==
    /\ ~geom.failed
    /\ Len(geom.pseudojets) = 3
    /\ \E k, m \in 1..2 :
           /\ At(geom, k).nearest_neighbour_idx = 0
           /\ At(geom, m).nearest_neighbour_idx # 0
    /\ ~Remove(geom, distance, 0).state.failed

\* q lies in the 3x3 tile window of p
InWindow(p, q) ==
    /\ TileCoord(q)[1] \in Members(RapIdxRange(TileCoord(p)[1]))
    /\ TileCoord(q)[2] \in Members(PhiIdxRange(TileCoord(p)[2]))

\* the pseudojets that ClusterGeom or ClusterGeomTile has held so far
EverActive ==
    Members(partons) \cup Members(ActiveOf("geom")) \cup Members(ActiveOf("tile"))
        \cup UNION {{x.ops[k] : k \in 1..Len(x.ops)} :
                       x \in Members(steps.geom) \cup Members(steps.tile)}

\* each of them lies in the window of every other, so that at every step so
\* far every nearest neighbour lay in the window
AllInWindow == \A p, q \in EverActive : InWindow(p, q)

\* C27: if so far every pseudojet's nearest neighbour among the active ones
\* lay in its 3x3 tile window, ClusterGeomTile has emitted the same steps as
\* ClusterGeom as far as both have gone, equidistant candidates included.
C27_TileAsGeom == AllInWindow => SameSteps(steps.geom, steps.tile)

\* t is before u in the order by d, then by first index, then by second index
LexBefore(t, u) ==
    t[1] < u[1] \/ (t[1] = u[1] /\ (t[2] < u[2] \/ (t[2] = u[2] /\ t[3] < u[3])))

\* the triple of the list that is before all others
LexLeast(distances) ==
    CHOOSE t \in Members(distances) :
        \A u \in Members(distances) : u = t \/ LexBefore(t, u)

\* the step that belongs to triple t over the pseudojets ps
StepOf(t, ps) ==
    IF t[2] = t[3] THEN Jet(ps[t[2] + 1]) ELSE Combine(ps[t[2] + 1], ps[t[3] + 1])

\* a beam triple (d, i, i) and a pair triple (d, i, j) with i < j are both at
\* the least d, no triple at that d has a first index below i
BeamPairTie(distances) ==
    \E t, u \in Members(distances) :
        /\ t = LexLeast(distances)
        /\ t[2] = t[3]
        /\ u[1] = t[1] /\ u[2] = t[2] /\ u[3] > u[2]

\* C28: a call of ClusterNaive::next that finds a triple returns the step of
\* the triple that is least in the order by d, then i, then j: Jet if its
\* indices are equal, Combine of the two pseudojets otherwise; so that it
\* returns the Jet when a beam triple (d, i, i) and a pair triple (d, i, j)
\* with i < j tie at the least d.
C28_LeastTriple ==
    [][(turn = "naive" /\ ~naive.failed /\ naive.distances # <<>> /\ ~naive'.failed)
          => /\ Len(steps'.naive) = Len(steps.naive) + 1
             /\ LastStep("naive")' = StepOf(LexLeast(naive.distances), naive.pseudojets)
             /\ BeamPairTie(naive.distances) => IsJet(LastStep("naive")')]_vars

\* the first call found a beam triple and a pair triple tied at the least d
\* and returned a Jet
C28_Witness ==
    /\ Len(steps.naive) >= 1
    /\ IsJet(steps.naive[1])
    /\ BeamPairTie(CalcDistances(partons, distance))

\* the lowest index of s whose record has the least min(beam_dist, nearest_dist)
LowestLeast(s) ==
    CHOOSE i \in 0..(Len(s.pseudojets) - 1) :
        /\ \A k \in 0..(Len(s.pseudojets) - 1) : MinDist(At(s, i)) <= MinDist(At(s, k))
        /\ \A k \in 0..(i - 1) : MinDist(At(s, i)) < MinDist(At(s, k))

\* step is what next() is to return when it has selected record i of s
StepOfRecord(s, i, step) ==
    /\ IsJet(step) <=> At(s, i).beam_dist < At(s, i).nearest_dist
    /\ step.ops[1] = At(s, i).pseudojet
    /\ IsCombine(step) =>
          /\ At(s, i).nearest_neighbour_idx < Len(s.pseudojets)
          /\ step.ops[2] = At(s, At(s, i).nearest_neighbour_idx).pseudojet

\* a call of next() on engine e in state s that returns has emitted the step
\* of the selected record
SelectsLowestLeast(e, s) ==
    (turn = e /\ ~s.failed /\ s.pseudojets # <<>> /\ ~EngFailed(e)')
        => /\ Len(steps'[e]) = Len(steps[e]) + 1
           /\ StepOfRecord(s, LowestLeast(s), LastStep(e)')

\* C29: every call of next() of ClusterGeom and ClusterGeomTile that returns
\* a step has selected the lowest index i among the records with the least
\* min(beam_dist, nearest_dist); the step is Jet(i) if and only if
\* beam_dist(i) < nearest_dist(i), and otherwise, equality included, the
\* Combine of i with its nearest neighbour.
C29_LowestLeastIndex ==
    [][SelectsLowestLeast("geom", geom) /\ SelectsLowestLeast("tile", tile)]_vars

\* engine e, constructed as s0, has begun with a Combine of a record whose
\* beam_dist equals its nearest_dist, several records sharing the least value
CombinedOnTie(e, s0) ==
    /\ Len(steps[e]) >= 1
    /\ IsCombine(steps[e][1])
    /\ At(s0, LowestLeast(s0)).beam_dist = At(s0, LowestLeast(s0)).nearest_dist
    /\ \E k \in 0..(Len(s0.pseudojets) - 1) :
           k # LowestLeast(s0) /\ MinDist(At(s0, k)) = MinDist(At(s0, LowestLeast(s0)))

C29_Witness ==
    /\ CombinedOnTie("geom", GeomNew(partons, distance))
    /\ CombinedOnTie("tile", TileNew(partons, distance))

\* how many triples of the list are about the indices i and j, in either order
TriplesOf(distances, i, j) ==
    Cardinality({k \in 1..Len(distances) :
                    \/ distances[k][2] = i /\ distances[k][3] = j
                    \/ distances[k][2] = j /\ distances[k][3] = i})

\* the distances of s are one triple for each active index and one for each
\* unordered pair of active indices, and nothing else
TriplesComplete(s) ==
    /\ 2 * Len(s.distances) = Len(s.pseudojets) * (Len(s.pseudojets) + 1)
    /\ \A k \in 1..Len(s.distances) :
           s.distances[k][2] < Len(s.pseudojets) /\ s.distances[k][3] < Len(s.pseudojets)
    /\ \A i, j \in 0..(Len(s.pseudojets) - 1) : TriplesOf(s.distances, i, j) = 1

\* C30: in ClusterNaive, as constructed and after every step, with k active
\* pseudojets, the distances vector holds k(k+1)/2 triples: one beam triple
\* for each active index, one pair triple for each unordered pair of active
\* indices, and no triple with an index that is not below k.
C30_TriplesComplete ==
    /\ ~naive.failed => TriplesComplete(naive)
    /\ (history.engine = "naive" /\ ~history.inner.failed) => TriplesComplete(history.inner)

\* ClusterNaive has combined two of three pseudojets and still holds two, so
\* that the triples of the removed index are gone and those of the last
\* index carry its new position
C30_Witness ==
    /\ ~naive.failed
    /\ Len(naive.pseudojets) = 2
    /\ Len(steps.naive) = 1
    /\ IsCombine(steps.naive[1])

\* the distance the measure d gives for the indices of the triple t, on the
\* pseudojets ps
FreshTriple(ps, d, t) ==
    IF t[2] # t[3] THEN Distance(d, ps[t[2] + 1], ps[t[3] + 1])
    ELSE BeamDistance(d, ps[t[2] + 1])

\* every stored triple of s carries the distance of its pseudojets
TriplesFresh(s, d) ==
    \A k \in 1..Len(s.distances) :
        s.distances[k][1] = FreshTriple(s.pseudojets, d, s.distances[k])

\* C31: in ClusterNaive, as constructed and after every step, every stored
\* triple (d, i, j) carries the pair distance of the active pseudojets i and j
\* (i # j) or the beam distance of the active pseudojet i (i = j).
C31_TriplesFresh ==
    /\ ~naive.failed => TriplesFresh(naive, distance)
    /\ (history.engine = "naive" /\ ~history.inner.failed)
            => TriplesFresh(history.inner, distance)

\* ClusterNaive has merged two of three pseudojets: one slot holds a sum that
\* is no input, and a pair triple touches it
C31_Witness ==
    /\ ~naive.failed
    /\ Len(steps.naive) = 1
    /\ IsCombine(steps.naive[1])
    /\ \E k \in 1..Len(naive.distances) :
           /\ naive.distances[k][2] # naive.distances[k][3]
           /\ \E m \in {naive.distances[k][2], naive.distances[k][3]} :
                  naive.pseudojets[m + 1] =
                      PJAdd(steps.naive[1].ops[1], steps.naive[1].ops[2])

\* the lower and the higher of two indices
Lower(i, j) == IF i < j THEN i ELSE j
Higher(i, j) == IF i < j THEN j ELSE i

\* after is before with the pseudojets at i and j merged: one pseudojet
\* fewer, the sum in the slot of the lower index, the former last pseudojet
\* in the slot of the higher index (unless that was the last), every other
\* slot as before
MergedInPlace(before, after, i, j) ==
    /\ Len(after) = Len(before) - 1
    /\ \A k \in 0..(Len(after) - 1) :
           after[k + 1] =
               IF k = Lower(i, j) THEN PJAdd(before[Lower(i, j) + 1], before[Higher(i, j) + 1])
               ELSE IF k = Higher(i, j) THEN before[Len(before)]
               ELSE before[k + 1]

\* C32: a call of ClusterNaive::next that selects a pair triple (d, i, j) and
\* returns removes the pseudojet at the higher of i and j by swap-remove,
\* leaves the sum of the two in the slot of the lower index and every other
\* pseudojet as it was, and returns Combine of the two pseudojets as they
\* were before, the one at i first.
C32_CombineInPlace ==
    [][(/\ turn = "naive" /\ ~naive.failed /\ naive.distances # <<>>
        /\ LexLeast(naive.distances)[2] # LexLeast(naive.distances)[3]
        /\ ~naive'.failed)
          => /\ MergedInPlace(naive.pseudojets, naive'.pseudojets,
                              LexLeast(naive.distances)[2], LexLeast(naive.distances)[3])
             /\ Len(steps'.naive) = Len(steps.naive) + 1
             /\ IsCombine(LastStep("naive")')
             /\ LastStep("naive")'.ops =
                    <<naive.pseudojets[LexLeast(naive.distances)[2] + 1],
                      naive.pseudojets[LexLeast(naive.distances)[3] + 1]>>]_vars

\* the first call has merged the pseudojets 0 and 1 of three: slot 0 holds
\* their sum and slot 1 the pseudojet that was last
C32_Witness ==
    /\ ~naive.failed
    /\ Len(partons) = 3
    /\ Len(steps.naive) = 1
    /\ steps.naive[1] = Combine(partons[1], partons[2])
    /\ naive.pseudojets = <<PJAdd(partons[1], partons[2]), partons[3]>>
    /\ partons[3] # partons[2]

\* how many of the operands of step are equal to p
AsOperand(step, p) == Cardinality({k \in 1..Len(step.ops) : step.ops[k] = p})

\* the pseudojets after are those before without the two operands of step
\* and with their sum, which is the last one
OperandsReplaced(before, after, step) ==
    /\ Len(after) = Len(before) - 1
    /\ after[Len(after)] = PJAdd(step.ops[1], step.ops[2])
    /\ \A p \in Members(before) \cup Members(after) :
           Count(after, p) = Count(before, p) - AsOperand(step, p)
                             + (IF p = PJAdd(step.ops[1], step.ops[2]) THEN 1 ELSE 0)

\* a call of next() on engine e, from state s to state t, that returns a
\* Combine: its operands are the selected record's pseudojet and the
\* pseudojet its pointer named in s, in this order, and t holds their sum in
\* their place
CombineCarriesOperands(e, s, t) ==
    (/\ turn = e /\ ~s.failed /\ s.pseudojets # <<>> /\ ~t.failed
     /\ Len(steps'[e]) = Len(steps[e]) + 1
     /\ IsCombine(LastStep(e)'))
        => /\ At(s, LowestLeast(s)).nearest_neighbour_idx < Len(s.pseudojets)
           /\ At(s, LowestLeast(s)).nearest_neighbour_idx # LowestLeast(s)
           /\ LastStep(e)'.ops =
                  <<At(s, LowestLeast(s)).pseudojet,
                    At(s, At(s, LowestLeast(s)).nearest_neighbour_idx).pseudojet>>
           /\ OperandsReplaced(Bare(s.pseudojets), Bare(t.pseudojets), LastStep(e)')

\* C33: a Combine step of ClusterGeom / ClusterGeomTile carries [p_i, p_j],
\* p_i the pseudojet of the selected minimum record and p_j the pseudojet its
\* nearest-neighbour pointer named before the step; both leave the active
\* set and exactly one new active pseudojet, p_i + p_j, is pushed.
C33_CombineOperands ==
    [][/\ CombineCarriesOperands("geom", geom, geom')
       /\ CombineCarriesOperands("tile", tile, tile')]_vars

\* the first call of both engines, on three pseudojets, has combined the
\* first with the last, whose index the removal of the first has renamed
C33_Witness ==
    /\ Len(partons) = 3
    /\ partons[2] # partons[3]
    /\ Len(steps.geom) >= 1 /\ steps.geom[1] = Combine(partons[1], partons[3])
    /\ Len(steps.tile) >= 1 /\ steps.tile[1] = Combine(partons[1], partons[3])

\* among the first n steps of st: how many Combine steps have the sum p, and
\* how many operands and Jet payloads are p
SumsAmong(st, n, p) ==
    Cardinality({k \in 1..n : IsCombine(st[k]) /\ PJAdd(st[k].ops[1], st[k].ops[2]) = p})
UsesAmong(st, n, p) ==
    Cardinality({u \in (1..n) \X (1..2) : u[2] <= Len(st[u[1]].ops) /\ st[u[1]].ops[u[2]] = p})

\* every pseudojet that the steps st name
Named(st) == UNION {{st[k].ops[m] : m \in 1..Len(st[k].ops)} : k \in 1..Len(st)}

\* whatever a step of st uses is an input or an earlier sum that no earlier
\* step has used up
UsesWhatExists(st) ==
    \A n \in 1..Len(st) : \A p \in Named(st) :
        UsesAmong(st, n, p) <= Count(partons, p) + SumsAmong(st, n - 1, p)

\* every input and every sum of st is used by exactly one step of st
AllUsedOnce(st) ==
    \A p \in Members(partons) \cup Named(st)
               \cup {PJAdd(st[k].ops[1], st[k].ops[2]) :
                         k \in {m \in 1..Len(st) : IsCombine(st[m])}} :
        UsesAmong(st, Len(st), p) = Count(partons, p) + SumsAmong(st, Len(st), p)

\* engine e emits no further step: it has returned None or it has panicked
EmitsNoMore(e) == nones[e] >= 1 \/ EngFailed(e)

\* C34: in every engine's emitted sequence each Combine operand and each Jet
\* payload is an input pseudojet or the sum of an earlier Combine step, and
\* when the engine has stopped every input and every sum has been used by
\* exactly one step, so that no input parton is discarded or duplicated.
C34_NothingDiscarded ==
    \A e \in Engines :
        /\ UsesWhatExists(steps[e])
        /\ (EmitsNoMore(e) => AllUsedOnce(steps[e]))

\* the same for the engines that have returned None, with nothing said about
\* the runs that end in a panic
C34_CompleteRuns ==
    \A e \in Engines :
        /\ UsesWhatExists(steps[e])
        /\ (nones[e] >= 1 => AllUsedOnce(steps[e]))

\* the rows next to row r that exist, and the columns next to column f
\* around the circle
WindowRows(r) == {r - 1, r, r + 1} \cap (0..(N_RAP_BINS - 1))
WindowCols(f) == {(f + N_PHI_BINS - 1) % N_PHI_BINS, f, (f + 1) % N_PHI_BINS}

\* the tiles of the window of (r, f) that hold index v
HoldersInWindow(tiles, r, f, v) ==
    {c \in WindowRows(r) \X WindowCols(f) : v \in Members(tiles[c[1]][c[2]])}

\* tile_neighbours(r, f) on the grid tiles yields the occupants of the window
\* of (r, f), each once, and nothing else
YieldsWindow(tiles, r, f, n) ==
    \A v \in 0..(n - 1) :
        Count(TileNeighbours(tiles, r, f), v)
            = IF HoldersInWindow(tiles, r, f, v) # {} THEN 1 ELSE 0

\* record b of s is among the tile neighbours of record a
InWindowOf(s, a, b) ==
    b \in Members(TileNeighbours(s.tiles, TileCoord(At(s, a).pseudojet)[1],
                                 TileCoord(At(s, a).pseudojet)[2]))

\* C35: on the grid of ClusterGeomTile, tile_neighbours(r, f) yields exactly
\* the occupants of the tiles (r', f') with r' one of r - 1, r, r + 1 that is
\* a row of the grid and f' one of f - 1, f, f + 1 modulo N_PHI_BINS, each
\* occupant once; and a is among the neighbours of b's tile exactly if b is
\* among the neighbours of a's tile.
C35_TileNeighbours ==
    ~tile.failed =>
        /\ \A r \in 0..(N_RAP_BINS - 1) : \A f \in 0..(N_PHI_BINS - 1) :
               YieldsWindow(tile.tiles, r, f, Len(tile.pseudojets))
        /\ \A a, b \in 0..(Len(tile.pseudojets) - 1) :
               InWindowOf(tile, a, b) <=> InWindowOf(tile, b, a)

\* ClusterGeomTile holds a pseudojet in the last row of tiles, one in phi
\* bin 0 and one in phi bin N_PHI_BINS - 1 of the same row, which are in each
\* other's window across the seam
C35_Witness ==
    /\ ~tile.failed
    /\ \E a, b, c \in 0..(Len(tile.pseudojets) - 1) :
           /\ TileCoord(At(tile, a).pseudojet)[1] = N_RAP_BINS - 1
           /\ TileCoord(At(tile, b).pseudojet)[2] = 0
           /\ TileCoord(At(tile, c).pseudojet)[2] = N_PHI_BINS - 1
           /\ TileCoord(At(tile, b).pseudojet)[1] = TileCoord(At(tile, c).pseudojet)[1]
           /\ InWindowOf(tile, b, c) /\ InWindowOf(tile, c, b)

\* the pseudojets the engines have held so far: the inputs, the active ones
\* and the operands and jets of the emitted steps
Held ==
    Members(partons) \cup UNION {Named(steps[e]) : e \in Engines}
        \cup UNION {Members(ActiveOf(e)) : e \in {en \in Engines : ~EngFailed(en)}}

\* the rapidity bin of p is a row of the grid, the edge row for a rapidity
\* beyond MAX_RAP
RapBinClamped(p) ==
    /\ TileCoord(p)[1] \in 0..(N_RAP_BINS - 1)
    /\ (p.rap = INF \/ p.rap >= MAX_RAP) => TileCoord(p)[1] = N_RAP_BINS - 1
    /\ (p.rap = NEGINF \/ p.rap < 0 - MAX_RAP) => TileCoord(p)[1] = 0

\* the phi bin of p is floor(phi * N_PHI_BINS / 2 pi) and a column of the grid
PhiBinInGrid(p) ==
    /\ TileCoord(p)[2] * TWO_PI <= p.phi * N_PHI_BINS
    /\ p.phi * N_PHI_BINS < (TileCoord(p)[2] + 1) * TWO_PI
    /\ TileCoord(p)[2] \in 0..(N_PHI_BINS - 1)

\* C36: tile_coord never fails and returns a rapidity bin in 0..N_RAP_BINS-1
\* and a phi bin in 0..N_PHI_BINS-1 for every pseudojet an engine can hold:
\* rapidities beyond +-MAX_RAP go to the edge rows, the phi bin is
\* floor(phi * N_PHI_BINS / 2 pi) and its range assertions hold.
C36_TileCoordTotal ==
    \A p \in Held : TileCoordOk(p) /\ RapBinClamped(p) /\ PhiBinInGrid(p)

\* the part of it that concerns the rapidity bin
C36_RapBinClamped == \A p \in Held : RapBinClamped(p)

\* no candidate of record i of the inputs ps is at a finite delta_r2
NoFiniteCandidate(ps, i, cands) ==
    \A j \in cands : DeltaR2(ps[i + 1], ps[j + 1]) >= MAXV

\* record i of s has no nearest neighbour: the none pointer, an infinite
\* nearest_dist, and no entry in a reverse list
Unresolved(s, i) ==
    /\ At(s, i).nearest_neighbour_idx = USIZE_MAX
    /\ At(s, i).nearest_dist = INF
    /\ \A k \in 0..(Len(s.pseudojets) - 1) : Count(At(s, k).nearest_neighbour_for, i) = 0

\* the candidates of record i in g, built by ClusterGeom::new, and in t,
\* built by ClusterGeomTile::new
OthersOf(g, i) == (0..(Len(g.pseudojets) - 1)) \ {i}
WindowOf(t, i) == Members(Candidates(t, i))

\* g and t, as constructed on the inputs ps, leave the records without a
\* finite candidate unresolved, and agree on them if every window holds all
\* the other records
UnresolvedAtInit(ps, g, t) ==
    /\ ~g.failed => \A i \in 0..(Len(ps) - 1) :
           NoFiniteCandidate(ps, i, OthersOf(g, i)) => Unresolved(g, i)
    /\ ~t.failed => \A i \in 0..(Len(ps) - 1) :
           NoFiniteCandidate(ps, i, WindowOf(t, i)) => Unresolved(t, i)
    /\ (~g.failed /\ ~t.failed /\ \A i \in 0..(Len(ps) - 1) : WindowOf(t, i) = OthersOf(g, i))
          => \A i \in 0..(Len(ps) - 1) :
                At(g, i).nearest_neighbour_idx = USIZE_MAX
                    <=> At(t, i).nearest_neighbour_idx = USIZE_MAX

\* C37: ClusterGeom::new and ClusterGeomTile::new give a pseudojet with no
\* finite-distance candidate (no other pseudojet, every candidate at an
\* infinite delta_r2, an empty tile window) the none pointer and
\* nearest_dist = +infinity and push it to no reverse list, and the two
\* agree on which pseudojets are unresolved when every window holds all the
\* other pseudojets.
C37_UnresolvedAtInit ==
    UnresolvedAtInit(partons, GeomNew(partons, distance), TileNew(partons, distance))

\* the same with the sentinel N64::max_value() in the place of +infinity
\* and without the comparison of the two engines
UnresolvedSentinel(s, i) ==
    /\ At(s, i).nearest_neighbour_idx = USIZE_MAX
    /\ At(s, i).nearest_dist = MAXV
    /\ \A k \in 0..(Len(s.pseudojets) - 1) : Count(At(s, k).nearest_neighbour_for, i) = 0

C37_GeomSentinel ==
    ~GeomNew(partons, distance).failed =>
        \A i \in 0..(Len(partons) - 1) :
            NoFiniteCandidate(partons, i, OthersOf(GeomNew(partons, distance), i))
                => UnresolvedSentinel(GeomNew(partons, distance), i)

C37_TileEmptyWindow ==
    ~TileNew(partons, distance).failed =>
        \A i \in 0..(Len(partons) - 1) :
            WindowOf(TileNew(partons, distance), i) = {}
                => UnresolvedSentinel(TileNew(partons, distance), i)

C37_TileSaturated ==
    ~TileNew(partons, distance).failed =>
        \A i \in 0..(Len(partons) - 1) :
            NoFiniteCandidate(partons, i, WindowOf(TileNew(partons, distance), i))
                => At(TileNew(partons, distance), i).nearest_neighbour_idx = USIZE_MAX

\* C38: the ordering of ClusterStep is consistent with its equality: for the
\* steps x, y the engines emit (and those with exchanged operands),
\* x.cmp(y) is Equal if and only if x == y; so that Combine([a, b]) and
\* Combine([b, a]) compare as Equal.
C38_OrdConsistentWithEq ==
    \A x, y \in EmittedOrFlipped : StepCmp(x, y) = "Equal" <=> StepEq(x, y)

\* one direction of it: steps that compare as Equal are equal
C38_EqualIsEq ==
    \A x, y \in EmittedOrFlipped : StepCmp(x, y) = "Equal" => StepEq(x, y)

====
